---- MODULE Spec2Model ----
(***************************************************************************)
(* Model of WarpX's ParticleBoundaryBuffer                                 *)
(* (Source/Particles/ParticleBoundaryBuffer.cpp), built as WARPX_DIM_XZ    *)
(* with AMREX_USE_EB: four domain faces xlo, xhi, zlo, zhi and the         *)
(* embedded boundary.                                                      *)
(*                                                                         *)
(* Real numbers are fixed point integers: lengths are counted in units of  *)
(* a quarter cell, step fractions in units of 1/FracDen.                   *)
(***************************************************************************)
EXTENDS Integers, Sequences, FiniteSets, TLC

\* ------------------------------------------------------------------ bounds
\* number of species of the run
NumSpecies == 2
\* number of mesh refinement levels
NumLevels == 2
\* number of particle tiles of a level
NumTiles == 2
\* last simulation step the driver reaches
MaxStep == 1
\* largest number of records of one buffer tile
MaxBuf == 2

\* number of threads of an OpenMP parallel region
NumThreads == 2

\* ------------------------------------------------------- program constants
AMREX_SPACEDIM == 2

Dims == 0 .. (AMREX_SPACEDIM - 1)
Sides == 0 .. 1
Species == 0 .. (NumSpecies - 1)
Levels == 0 .. (NumLevels - 1)
Tiles == 0 .. (NumTiles - 1)
Threads == 0 .. (NumThreads - 1)

\* variant without the row of the embedded boundary
numBoundaries_FacesOnly == 2 * AMREX_SPACEDIM

\* one boundary per domain face, plus the embedded boundary
numBoundaries == 2 * AMREX_SPACEDIM + 1
Boundaries == 0 .. (numBoundaries - 1)
EBIndex == AMREX_SPACEDIM * 2

\* ---------------------------------------------------------------- geometry
\* cell size of level 0, in length units
CellSize == 4
\* cell size of a level: each level refines the one below by two
CellSizeAt(lev) == IF lev = 0 THEN CellSize ELSE CellSize \div 2
\* geom.ProbLoArray() and geom.ProbHiArray()
plo == [d \in Dims |-> 0]
phi == [d \in Dims |-> 2 * CellSize]
\* denominator of the step fractions the bisection works with
FracDen == 4
\* the time step of a level, in ticks of 1/FracDen of a step; a momentum
\* of 1 moves a particle by one length unit per tick
getdt(lev) == FracDen
\* the interval below which the bisection stops, in units of 1/FracDen
BisectTol == 2

\* the signed distance to the embedded boundary at node (i, k) of a
\* level: the solid fills the half space x > 6
distance_to_eb(lev, i, k) == 6 - CellSizeAt(lev) * i

VARIABLES
    isPeriodic,             \* geom.isPeriodic(idim)
    m_do_boundary_buffer,   \* [boundary][species] activation flags
    m_particle_containers,  \* [boundary][species] buffer containers
    mypc,                   \* the source particle containers
    istep,                  \* warpx_instance.getistep(0)
    call,                   \* the last call made: its name, the boundary a
                            \* clearParticles(i) was given, the value returned,
                            \* the records a clear discarded, whether it aborted
    gather_loop,            \* where the loops of a gatherParticles call that
                            \* is under way stand: boundary, species, level
                            \* and the tiles the iterator still holds
    omp_threads,            \* what each thread of the parallel region does:
                            \* its tile, the count, dst_index, the writes made
    visits,                 \* how many times the call under way entered the
                            \* body of the tile loop, per boundary, species,
                            \* level and tile
    injector                \* the InjectorMomentum of a species: its type,
                            \* the temperature and the drift velocity its
                            \* GetTemperature and GetVelocity give, and the
                            \* direction of the drift

vars == <<isPeriodic, m_do_boundary_buffer, m_particle_containers, mypc,
          istep, call, gather_loop, omp_threads, visits, injector>>

\* the variables of a gatherParticles call followed statement by statement
passvars == <<gather_loop, omp_threads, visits>>

\* ------------------------------------------------------------- source data
\* runtime components of the species' containers, set when the species are
\* configured
NumRuntimeRealComps(s) == IF s = 0 THEN 0 ELSE 1
NumRuntimeIntComps(s) == IF s = 0 THEN 1 ELSE 0

SrcParticle(s, id, x, z, ux, uz) ==
    [idcpu |-> id,
     pos |-> [d \in Dims |-> IF d = 0 THEN x ELSE z],
     rdata |-> [w |-> 10 + s, ux |-> ux, uy |-> 7, uz |-> uz],
     runtime_rdata |-> [j \in 1 .. NumRuntimeRealComps(s) |-> 20 + j],
     runtime_idata |-> [j \in 1 .. NumRuntimeIntComps(s) |-> 30 + j]]

\* position (x, z) and momentum (ux, uz) a particle can start the run with
FromXlo == <<0, 4, -1, 0>>     \* on the xlo face, beyond it after one step
ToXhi == <<4, 4, 1, 0>>        \* on the xhi face, inside the solid, after one
ToCorner == <<0, 4, -1, 1>>    \* leaves through the corner of xlo and zhi
Outside == <<9, 2, 1, -1>>     \* beyond xhi and in the solid, then beyond zlo
OnSurface == <<6, 4, 1, 0>>    \* starts on the embedded surface
AtRest == <<4, 0, 0, 0>>       \* at rest on the zlo face
Entering == <<-1, 4, 1, 0>>    \* beyond xlo, inside the domain after one step

\* the particles the run starts with: two of species 0 in tile 0 of
\* level 0, whose last tile is empty, and one of the last species in the
\* last tile of the finest level; the levels hold no other tile
LoadFaces == <<FromXlo, ToXhi, ToCorner>>
LoadSurface == <<ToXhi, ToXhi, OnSurface>>
LoadCorner == <<AtRest, ToCorner, Outside>>
LoadEntering == <<Outside, Entering, ToXhi>>

\* the sets of boundaries a species can be configured to buffer at
ActiveSets == << Boundaries, {}, {0, 3}, {1, 2, 4} >>

\* the runs: species s buffers at the s-th set of ActiveSets counted
\* cyclically from the run's first component, and the particles start as
\* the load says
Runs ==
    { <<0, LoadFaces>>, <<0, LoadCorner>>,
      <<1, LoadFaces>>,
      <<2, LoadSurface>>, <<2, LoadEntering>>,
      <<3, LoadSurface>>, <<3, LoadCorner>>, <<3, LoadEntering>> }

\* value of a component that a resize reserved and nothing wrote
Uninit == -99

\* a level's map from tile index to particle tile, with no entry
EmptyLevel == <<>>

\* the particle tile of a level's map, empty when the map has no entry
TileOf(tiles, lev, t) ==
    IF t \in DOMAIN tiles[lev] THEN tiles[lev][t] ELSE <<>>

\* a container that was never defined
UndefinedContainer ==
    [defined |-> FALSE, NumRuntimeRealComps |-> 0, NumRuntimeIntComps |-> 0,
     tiles |-> [lev \in Levels |-> EmptyLevel]]

NoCall ==
    [op |-> "init", boundary |-> -1, ret |-> 0, discarded |-> 0,
     aborted |-> FALSE]

\* ------------------------------------------------------ domain-face predicate
\* variant with the comparisons of the two sides exchanged
IsOutsideDomainBoundary_SidesSwapped(m_plo, m_phi, m_idim, m_iside, p) ==
    IF m_iside = 0
    THEN IF p.pos[m_idim] >= m_phi[m_idim] THEN 1 ELSE 0
    ELSE IF p.pos[m_idim] < m_plo[m_idim] THEN 1 ELSE 0

\* variant whose low side matches a particle on the bound
IsOutsideDomainBoundary_LowInclusive(m_plo, m_phi, m_idim, m_iside, p) ==
    IF m_iside = 0
    THEN IF p.pos[m_idim] <= m_plo[m_idim] THEN 1 ELSE 0
    ELSE IF p.pos[m_idim] >= m_phi[m_idim] THEN 1 ELSE 0

\* IsOutsideDomainBoundary{m_plo, m_phi, m_idim, m_iside}(src, ip)
IsOutsideDomainBoundary(m_plo, m_phi, m_idim, m_iside, p) ==
    IF m_iside = 0
    THEN IF p.pos[m_idim] < m_plo[m_idim] THEN 1 ELSE 0
    ELSE IF p.pos[m_idim] >= m_phi[m_idim] THEN 1 ELSE 0

\* --------------------------------------------------- embedded boundary field
\* get_particle_position in XZ geometry: x is pos(0), z is pos(1)
get_particle_position(p) == [x |-> p.pos[0], z |-> p.pos[1]]

\* UpdatePosition: the particle moves along its momentum for t ticks
UpdatePosition(xz, ux, uz, t) == [x |-> xz.x + ux * t, z |-> xz.z + uz * t]

\* compute_weights_nodal along one direction: the node index below the
\* position and the weights of that node and of the next, times the cell size
compute_weights_nodal(xp, lo, dx) ==
    LET i == (xp - lo) \div dx
        r == (xp - lo) - dx * i
    IN  [i |-> i, W |-> [ii \in 0 .. 1 |-> IF ii = 1 THEN r ELSE dx - r]]

\* interp_field_nodal: the nodal field weighted by the two directions'
\* weights; the result is the field value times the squared cell size
interp_field_nodal(lev, wx, wz) ==
    LET term(ii, kk) ==
            wx.W[ii] * wz.W[kk] * distance_to_eb(lev, wx.i + ii, wz.i + kk)
    IN  term(0, 0) + term(1, 0) + term(0, 1) + term(1, 1)

\* doGatherScalarFieldNodal(xp, yp, zp, phiarr, dxi, plo)
doGatherScalarFieldNodal(lev, xz) ==
    interp_field_nodal(lev,
        compute_weights_nodal(xz.x, plo[0], CellSizeAt(lev)),
        compute_weights_nodal(xz.z, plo[1], CellSizeAt(lev)))

\* variant that takes a particle on the surface for inside
IsInsideEB_ZeroInside(lev, p) ==
    IF doGatherScalarFieldNodal(lev, get_particle_position(p)) <= 0
    THEN 1 ELSE 0

\* the predicate of the embedded boundary pass
IsInsideEB(lev, p) ==
    IF doGatherScalarFieldNodal(lev, get_particle_position(p)) < 0
    THEN 1 ELSE 0

\* amrex::bisect(lo, hi, f): f is the field along the backward trajectory
RECURSIVE bisect_loop(_, _, _, _, _, _)
bisect_loop(f, lo, hi, flo, mi, n) ==
    IF n > 100 \/ hi - lo < BisectTol \/ lo = hi
    THEN mi
    ELSE LET m == (lo + hi) \div 2
             fmi == f[m]
         IN  IF fmi = 0
             THEN m
             ELSE IF fmi * flo < 0
                  THEN bisect_loop(f, lo, m, f[lo], m, n + 1)
                  ELSE bisect_loop(f, m, hi, f[m], m, n + 1)

bisect(lo, hi, f) ==
    IF f[lo] = 0 THEN f[lo]
    ELSE IF f[hi] = 0 THEN f[hi]
    ELSE bisect_loop(f, lo, hi, f[lo], (lo + hi) \div 2, 1)

\* -------------------------------------------------------------- transforms
\* variant that stamps the index of the step that follows
CopyAndTimestamp_StampsNextStep(m_index, m_step, nReal, nInt, p) ==
    [idcpu |-> p.idcpu,
     pos |-> p.pos,
     rdata |-> p.rdata,
     runtime_rdata |->
        [j \in 1 .. nReal |->
            IF j <= Len(p.runtime_rdata) THEN p.runtime_rdata[j] ELSE Uninit],
     runtime_idata |->
        [j \in 1 .. nInt |->
            IF j = m_index + 1 THEN m_step + 1
            ELSE IF j <= Len(p.runtime_idata) THEN p.runtime_idata[j]
            ELSE Uninit]]

\* variant without the loop over the runtime real components
CopyAndTimestamp_SkipsRuntimeReals(m_index, m_step, nReal, nInt, p) ==
    [idcpu |-> p.idcpu,
     pos |-> p.pos,
     rdata |-> p.rdata,
     runtime_rdata |-> [j \in 1 .. nReal |-> Uninit],
     runtime_idata |->
        [j \in 1 .. nInt |->
            IF j = m_index + 1 THEN m_step
            ELSE IF j <= Len(p.runtime_idata) THEN p.runtime_idata[j]
            ELSE Uninit]]

\* CopyAndTimestamp{m_index, m_step}(dst, src, src_i, dst_i): the record
\* written to a destination that holds nInt runtime integer components
CopyAndTimestamp(m_index, m_step, nReal, nInt, p) ==
    [idcpu |-> p.idcpu,
     pos |-> p.pos,
     rdata |-> p.rdata,
     runtime_rdata |->
        [j \in 1 .. nReal |->
            IF j <= Len(p.runtime_rdata) THEN p.runtime_rdata[j] ELSE Uninit],
     runtime_idata |->
        [j \in 1 .. nInt |->
            IF j = m_index + 1 THEN m_step
            ELSE IF j <= Len(p.runtime_idata) THEN p.runtime_idata[j]
            ELSE Uninit]]

\* variant that moves the particle forward by the fraction found
FindBoundaryIntersection_MovesForward(m_index, m_step, m_dt, lev, nReal, nInt, p) ==
    LET copied == CopyAndTimestamp(m_index, m_step, nReal, nInt, p)
        xzp == get_particle_position(copied)
        ux == copied.rdata.ux
        uz == copied.rdata.uz
        field == [dt_frac \in 0 .. FracDen |->
                    doGatherScalarFieldNodal(lev,
                        UpdatePosition(xzp, ux, uz,
                                       0 - ((dt_frac * m_dt) \div FracDen)))]
        dt_fraction == bisect(0, FracDen, field)
        temp == UpdatePosition(xzp, ux, uz, (dt_fraction * m_dt) \div FracDen)
    IN  [copied EXCEPT !.pos = [d \in Dims |-> IF d = 0 THEN temp.x ELSE temp.z]]

\* variant that leaves the copied position in the record
FindBoundaryIntersection_KeepsPosition(m_index, m_step, m_dt, lev, nReal, nInt, p) ==
    CopyAndTimestamp(m_index, m_step, nReal, nInt, p)

\* FindBoundaryIntersection{m_index, m_step, m_dt, ...}(dst, src, src_i, dst_i)
FindBoundaryIntersection(m_index, m_step, m_dt, lev, nReal, nInt, p) ==
    LET copied == CopyAndTimestamp(m_index, m_step, nReal, nInt, p)
        xzp == get_particle_position(copied)
        ux == copied.rdata.ux
        uz == copied.rdata.uz
        field == [dt_frac \in 0 .. FracDen |->
                    doGatherScalarFieldNodal(lev,
                        UpdatePosition(xzp, ux, uz,
                                       0 - ((dt_frac * m_dt) \div FracDen)))]
        dt_fraction == bisect(0, FracDen, field)
        temp == UpdatePosition(xzp, ux, uz,
                               0 - ((dt_fraction * m_dt) \div FracDen))
    IN  [copied EXCEPT !.pos = [d \in Dims |-> IF d = 0 THEN temp.x ELSE temp.z]]

\* ------------------------------------------------------------ tile passes
\* a record of a tile that a resize reserved and nothing wrote yet
UninitRecord(nReal, nInt) ==
    [idcpu |-> Uninit,
     pos |-> [d \in Dims |-> Uninit],
     rdata |-> [w |-> Uninit, ux |-> Uninit, uy |-> Uninit, uz |-> Uninit],
     runtime_rdata |-> [j \in 1 .. nReal |-> Uninit],
     runtime_idata |-> [j \in 1 .. nInt |-> Uninit]]

\* ptile_buffer.resize(n)
resize(tile, n, nReal, nInt) ==
    [j \in 1 .. n |-> IF j <= Len(tile) THEN tile[j]
                      ELSE UninitRecord(nReal, nInt)]

\* the source indices, in order, of the particles the predicate selects
RECURSIVE MatchingIndices(_, _, _)
MatchingIndices(flags, ip, np) ==
    IF ip > np THEN <<>>
    ELSE IF flags[ip] # 0
         THEN <<ip>> \o MatchingIndices(flags, ip + 1, np)
         ELSE MatchingIndices(flags, ip + 1, np)

\* variant that counts one particle too many
CountMatches_OneMore(flags) ==
    Cardinality({ip \in DOMAIN flags : flags[ip] # 0}) + 1

\* reduce_op.eval(np, ...): the number of particles the predicate selects
CountMatches(flags) == Cardinality({ip \in DOMAIN flags : flags[ip] # 0})

\* variant that writes from the start of the destination
filterAndTransformParticles_FromStart(dst, flags, written, dst_index) ==
    LET sel == MatchingIndices(flags, 1, Len(flags))
    IN  [j \in 1 .. Len(dst) |->
            IF j <= Len(sel) THEN written[sel[j]] ELSE dst[j]]

\* amrex::filterAndTransformParticles(dst, src, pred, f, 0, dst_index):
\* the k-th selected particle is written at dst_index + k
filterAndTransformParticles(dst, flags, written, dst_index) ==
    LET sel == MatchingIndices(flags, 1, Len(flags))
    IN  [j \in 1 .. Len(dst) |->
            IF j > dst_index /\ j - dst_index <= Len(sel)
            THEN written[sel[j - dst_index]]
            ELSE dst[j]]

\* variant that takes every destination tile for empty
numParticles_AlwaysZero(tile) == 0

\* ptile_buffer.numParticles()
numParticles(tile) == Len(tile)

\* variant that passes over a particle an earlier face already matched
GatherFaceTile_SkipsEarlierMatches(ptile_buffer, ptile, idim, iside, nReal, nInt, step) ==
    LET np == Len(ptile)
        flags == [ip \in 1 .. np |->
                    IF \E b \in 0 .. (2 * idim + iside - 1) :
                          IsOutsideDomainBoundary(plo, phi, b \div 2, b % 2,
                                                  ptile[ip]) = 1
                    THEN 0
                    ELSE IsOutsideDomainBoundary(plo, phi, idim, iside,
                                                 ptile[ip])]
        dst_index == numParticles(ptile_buffer)
        resized == resize(ptile_buffer, dst_index + CountMatches(flags),
                          nReal, nInt)
        written == [ip \in 1 .. np |->
                      CopyAndTimestamp(nInt - 1, step, nReal, nInt, ptile[ip])]
    IN  IF np = 0 THEN ptile_buffer
        ELSE filterAndTransformParticles(resized, flags, written, dst_index)

\* variant that passes over a particle the destination tile holds already
GatherFaceTile_SkipsBuffered(ptile_buffer, ptile, idim, iside, nReal, nInt, step) ==
    LET np == Len(ptile)
        flags == [ip \in 1 .. np |->
                    IF \E j \in 1 .. Len(ptile_buffer) :
                          ptile_buffer[j].idcpu = ptile[ip].idcpu
                    THEN 0
                    ELSE IsOutsideDomainBoundary(plo, phi, idim, iside,
                                                 ptile[ip])]
        dst_index == numParticles(ptile_buffer)
        resized == resize(ptile_buffer, dst_index + CountMatches(flags),
                          nReal, nInt)
        written == [ip \in 1 .. np |->
                      CopyAndTimestamp(nInt - 1, step, nReal, nInt, ptile[ip])]
    IN  IF np = 0 THEN ptile_buffer
        ELSE filterAndTransformParticles(resized, flags, written, dst_index)

\* one tile of the pass of a domain face (boundary 2*idim+iside)
GatherFaceTile(ptile_buffer, ptile, idim, iside, nReal, nInt, step) ==
    LET np == Len(ptile)
        flags == [ip \in 1 .. np |->
                    IsOutsideDomainBoundary(plo, phi, idim, iside, ptile[ip])]
        dst_index == numParticles(ptile_buffer)
        resized == resize(ptile_buffer, dst_index + CountMatches(flags),
                          nReal, nInt)
        timestamp_index == nInt - 1
        written == [ip \in 1 .. np |->
                      CopyAndTimestamp(timestamp_index, step, nReal, nInt,
                                       ptile[ip])]
    IN  IF np = 0 THEN ptile_buffer
        ELSE filterAndTransformParticles(resized, flags, written, dst_index)

\* one tile of the pass of the embedded boundary
GatherEBTile(ptile_buffer, ptile, lev, nReal, nInt, step) ==
    LET np == Len(ptile)
        flags == [ip \in 1 .. np |-> IsInsideEB(lev, ptile[ip])]
        dst_index == numParticles(ptile_buffer)
        resized == resize(ptile_buffer, dst_index + CountMatches(flags),
                          nReal, nInt)
        timestamp_index == nInt - 1
        written == [ip \in 1 .. np |->
                      FindBoundaryIntersection(timestamp_index, step,
                          getdt(lev), lev, nReal, nInt, ptile[ip])]
    IN  IF np = 0 THEN ptile_buffer
        ELSE filterAndTransformParticles(resized, flags, written, dst_index)

\* variant that takes no dimension for periodic
SkipsBoundary_Never(b) == FALSE

\* whether gatherParticles passes over face b: its dimension is periodic
SkipsBoundary(b) == b # EBIndex /\ isPeriodic[b \div 2]

\* pc.make_alike() followed by AddIntComp("timestamp")
make_alike(s) ==
    [defined |-> TRUE,
     NumRuntimeRealComps |-> NumRuntimeRealComps(s),
     NumRuntimeIntComps |-> NumRuntimeIntComps(s) + 1,
     tiles |-> [lev \in Levels |-> EmptyLevel]]

\* variant that buffers a species wherever some species is buffered
DoBuffer_AnySpecies(b, i) == \E s \in Species : m_do_boundary_buffer[b][s]

\* whether gatherParticles buffers species i at boundary b
DoBuffer(b, i) == m_do_boundary_buffer[b][i]

\* the loops over the levels and the tiles of the source pc, appending to
\* the defined buffer species_buffer of boundary b
GatherIntoBuffer(b, species_buffer, pc, step) ==
    LET nReal == species_buffer.NumRuntimeRealComps
        nInt == species_buffer.NumRuntimeIntComps
    IN  [species_buffer EXCEPT !.tiles =
            [lev \in Levels |->
                \* DefineAndReturnParticleTile makes an entry for every
                \* tile the iterator visits
                [t \in (DOMAIN species_buffer.tiles[lev]) \cup (DOMAIN pc[lev]) |->
                    LET ptile_buffer == TileOf(species_buffer.tiles, lev, t)
                    IN  IF t \notin DOMAIN pc[lev] THEN ptile_buffer
                        ELSE IF b = EBIndex
                        THEN GatherEBTile(ptile_buffer, pc[lev][t], lev,
                                          nReal, nInt, step)
                        ELSE GatherFaceTile(ptile_buffer, pc[lev][t],
                                            b \div 2, b % 2,
                                            nReal, nInt, step)]]]

\* variant that leaves a buffer undefined until a particle matched
GatherBuffer_DefinesOnMatch(b, i, buffer, pc, step) ==
    LET gathered == GatherIntoBuffer(b, IF buffer.defined THEN buffer
                                        ELSE make_alike(i), pc, step)
    IN  IF SkipsBoundary(b) THEN buffer
        ELSE IF ~DoBuffer(b, i) THEN buffer
        ELSE IF /\ ~buffer.defined
                /\ \A lev \in Levels : \A t \in DOMAIN gathered.tiles[lev] :
                      Len(gathered.tiles[lev][t]) = 0
             THEN buffer
             ELSE gathered

\* the buffer of species i at boundary b after the passes of a gather
GatherBuffer(b, i, buffer, pc, step) ==
    IF SkipsBoundary(b) THEN buffer
    ELSE IF ~DoBuffer(b, i) THEN buffer
    ELSE GatherIntoBuffer(b, IF buffer.defined THEN buffer
                             ELSE make_alike(i), pc, step)

\* variant that removes from the source the particles outside the domain
SourceAfterGather_RemovesLost(pc) ==
    [lev \in Levels |-> [t \in DOMAIN pc[lev] |->
        SelectSeq(pc[lev][t],
                  LAMBDA p : \A d \in Dims :
                      p.pos[d] >= plo[d] /\ p.pos[d] < phi[d])]]

\* the source containers after a gather: every access is through const
\* references and const iterators
SourceAfterGather(pc) == pc

\* ------------------------------------------------------- container queries
\* the number of records of the tiles t, t+1, ... of one level
RECURSIVE NumberOfParticlesFromTile(_, _)
NumberOfParticlesFromTile(level, t) ==
    IF t >= NumTiles THEN 0
    ELSE (IF t \in DOMAIN level THEN Len(level[t]) ELSE 0)
         + NumberOfParticlesFromTile(level, t + 1)

\* the number of records of the levels lev, lev+1, ...
RECURSIVE NumberOfParticlesFromLevel(_, _)
NumberOfParticlesFromLevel(tiles, lev) ==
    IF lev >= NumLevels THEN 0
    ELSE NumberOfParticlesFromTile(tiles[lev], 0)
         + NumberOfParticlesFromLevel(tiles, lev + 1)

\* variant that counts the records with a valid id only
TotalNumberOfParticles_OnlyValid(container) ==
    Cardinality({ x \in UNION { { <<lev, t, j>> :
                        j \in 1 .. Len(TileOf(container.tiles, lev, t)) } :
                                lev \in Levels, t \in Tiles } :
                    container.tiles[x[1]][x[2]][x[3]].idcpu >= 0 })

\* TotalNumberOfParticles(false, local): every record counts, valid or not
TotalNumberOfParticles(container) ==
    NumberOfParticlesFromLevel(container.tiles, 0)

\* the value getNumParticlesInContainer returns for buffer[index]
NumParticlesInContainer(buffer, index) ==
    IF buffer[index].defined
    THEN TotalNumberOfParticles(buffer[index])
    ELSE 0

\* variant that releases the container
ContainerCleared_Releases(container) == UndefinedContainer

\* PinnedMemoryParticleContainer::clearParticles(): every tile the
\* container holds is resized to zero
ContainerCleared(container) ==
    [container EXCEPT !.tiles =
        [lev \in Levels |-> [t \in DOMAIN container.tiles[lev] |-> <<>>]]]

\* variant that removes the records with a negative id whatever the flag
Redistribute_RemovesNegative(container, remove_negative) ==
    [container EXCEPT !.tiles =
        [lev \in Levels |-> [t \in DOMAIN container.tiles[lev] |->
            SelectSeq(container.tiles[lev][t], LAMBDA r : r.idcpu >= 0)]]]

\* species_buffer.Redistribute(0, -1, 0, 0, remove_negative)
Redistribute(container, remove_negative) ==
    [container EXCEPT !.tiles =
        [lev \in Levels |-> [t \in DOMAIN container.tiles[lev] |->
            IF remove_negative
            THEN SelectSeq(container.tiles[lev][t], LAMBDA r : r.idcpu >= 0)
            ELSE container.tiles[lev][t]]]]

\* variant whose loop stops one species short
ClearBoundary_SkipsLastSpecies(bufs, i) ==
    [bufs EXCEPT ![i] =
        [s \in Species |-> IF bufs[i][s].defined /\ s < NumSpecies - 1
                           THEN ContainerCleared(bufs[i][s])
                           ELSE bufs[i][s]]]

\* variant without the isDefined test, which leaves a defined container
RedistributeBuffer_Unguarded(species_buffer) ==
    [Redistribute(species_buffer, FALSE) EXCEPT !.defined = TRUE]

\* the body of redistribute's loops: a defined buffer is redistributed,
\* negative ids are not removed
RedistributeBuffer(species_buffer) ==
    IF species_buffer.defined
    THEN Redistribute(species_buffer, FALSE)
    ELSE species_buffer

\* clearParticles(i) applied to the buffers bufs
ClearBoundary(bufs, i) ==
    [bufs EXCEPT ![i] =
        [s \in Species |-> IF bufs[i][s].defined
                           THEN ContainerCleared(bufs[i][s])
                           ELSE bufs[i][s]]]

\* variant whose loop stops before the last boundary
RECURSIVE ClearFrom_StopsEarly(_, _)
ClearFrom_StopsEarly(bufs, i) ==
    IF i >= numBoundaries - 1 THEN bufs
    ELSE ClearFrom_StopsEarly(ClearBoundary(bufs, i), i + 1)

RECURSIVE ClearFrom(_, _)
ClearFrom(bufs, i) ==
    IF i >= numBoundaries THEN bufs
    ELSE ClearFrom(ClearBoundary(bufs, i), i + 1)

\* no thread of a parallel region is at work
IdleThread ==
    [phase |-> "idle", t |-> 0, count |-> 0, dst_index |-> 0,
     written |-> <<>>]

\* the momentum injector of the runs that sample no momentum
NoInjector == [type |-> "constant", theta |-> 0, beta |-> 0, dir |-> 0]

\* no gatherParticles call is under way
NoPass ==
    /\ gather_loop = [pc |-> "idle", b |-> 0, i |-> 0, lev |-> 0,
                      pending |-> {}, entry |-> <<>>]
    /\ omp_threads = [w \in Threads |-> IdleThread]
    /\ visits = [x \in Boundaries \X Species \X Levels \X Tiles |-> 0]

Init ==
    /\ isPeriodic \in [Dims -> BOOLEAN]
    /\ m_particle_containers =
          [b \in Boundaries |-> [s \in Species |-> UndefinedContainer]]
    /\ \E run \in Runs :
          LET c == run[1]
              p1 == run[2][1]
              p2 == run[2][2]
              p3 == run[2][3]
          IN
          /\ m_do_boundary_buffer =
                [b \in Boundaries |-> [s \in Species |->
                    b \in ActiveSets[((c + s) % Len(ActiveSets)) + 1]]]
          /\ mypc = [s \in Species |-> [lev \in Levels |->
                    IF s = 0 /\ lev = 0
                    THEN [t \in {0, NumTiles - 1} |->
                            IF t = 0
                            THEN << SrcParticle(0, 1, p1[1], p1[2], p1[3], p1[4]),
                                    SrcParticle(0, 2, p2[1], p2[2], p2[3], p2[4]) >>
                            ELSE <<>>]
                    ELSE IF s = (NumSpecies - 1) /\ lev = (NumLevels - 1)
                    THEN [t \in {NumTiles - 1} |->
                            << SrcParticle(s, -3, p3[1], p3[2], p3[3], p3[4]) >>]
                    ELSE EmptyLevel]]
    /\ istep = 0
    /\ call = NoCall
    /\ NoPass
    /\ injector = NoInjector

\* ----------------------------------------------------------------- actions
Running == ~call.aborted

\* the number of records the buffers of boundary i hold, for the species
\* s, s+1, ...
RECURSIVE BufferedFromSpecies(_, _)
BufferedFromSpecies(i, s) ==
    IF s >= NumSpecies THEN 0
    ELSE NumParticlesInContainer(m_particle_containers[i], s)
         + BufferedFromSpecies(i, s + 1)

BufferedAt(i) == BufferedFromSpecies(i, 0)

\* the number of records the buffers of the boundaries b, b+1, ... hold
RECURSIVE BufferedFrom(_)
BufferedFrom(b) ==
    IF b >= numBoundaries THEN 0
    ELSE BufferedAt(b) + BufferedFrom(b + 1)

\* ParticleBoundaryBuffer::gatherParticles
gatherParticles ==
    /\ Running
    /\ \E after \in { [b \in Boundaries |-> [i \in Species |->
                          GatherBuffer(b, i, m_particle_containers[b][i],
                                       mypc[i], istep)]] } :
          \* the model follows a run while no tile holds more than MaxBuf
          /\ \A b \in Boundaries, i \in Species, lev \in Levels :
                \A t \in DOMAIN after[b][i].tiles[lev] :
                    Len(after[b][i].tiles[lev][t]) <= MaxBuf
          /\ m_particle_containers' = after
    /\ mypc' = [i \in Species |-> SourceAfterGather(mypc[i])]
    /\ call' = [NoCall EXCEPT !.op = "gatherParticles"]
    /\ UNCHANGED <<isPeriodic, m_do_boundary_buffer, istep>>
    /\ UNCHANGED <<passvars, injector>>

\* ParticleBoundaryBuffer::clearParticles(int i)
clearParticles(i) ==
    /\ Running
    /\ m_particle_containers' = ClearBoundary(m_particle_containers, i)
    /\ call' = [NoCall EXCEPT !.op = "clearParticles", !.boundary = i,
                              !.discarded = BufferedAt(i)]
    /\ UNCHANGED <<isPeriodic, m_do_boundary_buffer, mypc, istep>>
    /\ UNCHANGED <<passvars, injector>>

\* ParticleBoundaryBuffer::clearParticles()
clearParticlesAll ==
    /\ Running
    /\ m_particle_containers' = ClearFrom(m_particle_containers, 0)
    /\ call' = [NoCall EXCEPT !.op = "clearParticlesAll",
                              !.discarded = BufferedFrom(0)]
    /\ UNCHANGED <<isPeriodic, m_do_boundary_buffer, mypc, istep>>
    /\ UNCHANGED <<passvars, injector>>

\* ParticleBoundaryBuffer::redistribute
redistribute ==
    /\ Running
    /\ m_particle_containers' =
          [b \in Boundaries |-> [s \in Species |->
              RedistributeBuffer(m_particle_containers[b][s])]]
    /\ call' = [NoCall EXCEPT !.op = "redistribute"]
    /\ UNCHANGED <<isPeriodic, m_do_boundary_buffer, mypc, istep>>
    /\ UNCHANGED <<passvars, injector>>

\* a call that changes nothing but what the caller gets back
Returns(op, ret, aborted) ==
    /\ Running
    /\ call' = [NoCall EXCEPT !.op = op, !.ret = ret, !.aborted = aborted]
    /\ UNCHANGED <<isPeriodic, m_do_boundary_buffer, m_particle_containers,
                   mypc, istep>>
    /\ UNCHANGED <<passvars, injector>>

\* ParticleBoundaryBuffer::getNumParticlesInContainer
getNumParticlesInContainer(index, boundary) ==
    LET buffer == m_particle_containers[boundary]
    IN  Returns("getNumParticlesInContainer",
                NumParticlesInContainer(buffer, index), FALSE)

\* variant with the first assertion only
BufferAssertFails_FlagOnly(index, boundary) ==
    ~m_do_boundary_buffer[boundary][index]

\* whether an assertion of getParticleBuffer fails
BufferAssertFails(index, boundary) ==
    LET buffer == m_particle_containers[boundary]
    IN  \/ ~m_do_boundary_buffer[boundary][index]
        \/ ~buffer[index].defined

\* ParticleBoundaryBuffer::getParticleBuffer: a failed assertion aborts
getParticleBuffer(index, boundary) ==
    Returns("getParticleBuffer", 0, BufferAssertFails(index, boundary))

\* ParticleBoundaryBuffer::getParticleBufferPointer: no assertion
getParticleBufferPointer(index, boundary) ==
    Returns("getParticleBufferPointer", 0, FALSE)

\* the three queries, for every species and boundary; calls that give the
\* caller the same result lead to the same state and are taken once
Queries ==
    \/ \E r \in { NumParticlesInContainer(m_particle_containers[b], s) :
                      s \in Species, b \in Boundaries } :
          Returns("getNumParticlesInContainer", r, FALSE)
    \/ \E f \in { BufferAssertFails(s, b) : s \in Species, b \in Boundaries } :
          Returns("getParticleBuffer", 0, f)
    \/ Returns("getParticleBufferPointer", 0, FALSE)

\* the driver's step: the particles are pushed and the step index advances
Evolve ==
    /\ Running
    /\ istep < MaxStep
    /\ istep' = istep + 1
    /\ mypc' = [s \in Species |-> [lev \in Levels |->
                [t \in DOMAIN mypc[s][lev] |->
                  [ip \in 1 .. Len(mypc[s][lev][t]) |->
                      LET p == mypc[s][lev][t][ip]
                          moved == UpdatePosition(get_particle_position(p),
                                       p.rdata.ux, p.rdata.uz, getdt(lev))
                      IN  [p EXCEPT !.pos = [d \in Dims |->
                              IF d = 0 THEN moved.x ELSE moved.z]]]]]]
    /\ call' = [NoCall EXCEPT !.op = "Evolve"]
    /\ UNCHANGED <<isPeriodic, m_do_boundary_buffer, m_particle_containers>>
    /\ UNCHANGED <<passvars, injector>>

Next ==
    \/ gatherParticles
    \/ \E i \in Boundaries : clearParticles(i)
    \/ clearParticlesAll
    \/ redistribute
    \/ Queries
    \/ Evolve

Spec == Init /\ [][Next]_vars

\* ------------------------------------- gatherParticles, statement by statement
\* the particles of the runs that follow a gatherParticles call statement
\* by statement: three of species 0 at level 0, two in tile 0 and one in
\* the last tile, next to an empty tile at the finest level, and one of the
\* last species in the last tile of the finest level
PassLoadTwoInTile == <<Outside, Outside, Outside, ToXhi>>
PassLoadTwoSteps == <<Outside, ToCorner, FromXlo, OnSurface>>

PassRuns ==
    { <<0, PassLoadTwoInTile>>, <<3, PassLoadTwoInTile>>,
      <<0, PassLoadTwoSteps>>, <<3, PassLoadTwoSteps>> }

PassInit ==
    /\ isPeriodic \in [Dims -> BOOLEAN]
    /\ m_particle_containers =
          [b \in Boundaries |-> [s \in Species |-> UndefinedContainer]]
    /\ \E run \in PassRuns :
          LET c == run[1]
              p == run[2]
          IN
          /\ m_do_boundary_buffer =
                [b \in Boundaries |-> [s \in Species |->
                    b \in ActiveSets[((c + s) % Len(ActiveSets)) + 1]]]
          /\ mypc = [s \in Species |-> [lev \in Levels |->
                    IF s = 0 /\ lev = 0
                    THEN [t \in {0, NumTiles - 1} |->
                            IF t = 0
                            THEN << SrcParticle(0, 1, p[1][1], p[1][2], p[1][3], p[1][4]),
                                    SrcParticle(0, 2, p[2][1], p[2][2], p[2][3], p[2][4]) >>
                            ELSE << SrcParticle(0, 4, p[3][1], p[3][2], p[3][3], p[3][4]) >>]
                    ELSE IF s = (NumSpecies - 1) /\ lev = (NumLevels - 1)
                    THEN [t \in {NumTiles - 1} |->
                            << SrcParticle(s, -3, p[4][1], p[4][2], p[4][3], p[4][4]) >>]
                    ELSE IF s = 0 /\ lev = (NumLevels - 1)
                    THEN [t \in {0} |-> <<>>]
                    ELSE EmptyLevel]]
    /\ istep = 0
    /\ call = NoCall
    /\ NoPass
    /\ injector = NoInjector

\* the buffers a gatherParticles call leaves when nothing runs beside it
GatherAll(bufs, pcs, step) ==
    [b \in Boundaries |-> [i \in Species |->
        GatherBuffer(b, i, bufs[b][i], pcs[i], step)]]

\* the predicate of the pass under way, for each particle of a tile
PassFlags(ptile) ==
    [ip \in 1 .. Len(ptile) |->
        IF gather_loop.b = EBIndex
        THEN IsInsideEB(gather_loop.lev, ptile[ip])
        ELSE IsOutsideDomainBoundary(plo, phi, gather_loop.b \div 2,
                                     gather_loop.b % 2, ptile[ip])]

\* variant that stamps a count of the tiles the call has taken so far
\* in place of the step index
PassTransform_StampsCounter(p) ==
    LET species_buffer == m_particle_containers[gather_loop.b][gather_loop.i]
        nReal == species_buffer.NumRuntimeRealComps
        nInt == species_buffer.NumRuntimeIntComps
        counter == Cardinality({ x \in DOMAIN visits : visits[x] > 0 })
    IN  IF gather_loop.b = EBIndex
        THEN FindBoundaryIntersection(nInt - 1, counter,
                 getdt(gather_loop.lev), gather_loop.lev, nReal, nInt, p)
        ELSE CopyAndTimestamp(nInt - 1, counter, nReal, nInt, p)

\* the record the transform of the pass under way writes for particle p
PassTransform(p) ==
    LET species_buffer == m_particle_containers[gather_loop.b][gather_loop.i]
        nReal == species_buffer.NumRuntimeRealComps
        nInt == species_buffer.NumRuntimeIntComps
        timestamp_index == nInt - 1
    IN  IF gather_loop.b = EBIndex
        THEN FindBoundaryIntersection(timestamp_index, istep,
                 getdt(gather_loop.lev), gather_loop.lev, nReal, nInt, p)
        ELSE CopyAndTimestamp(timestamp_index, istep, nReal, nInt, p)

\* variant that finds the destination tile by the level alone
DestinationTile_OnePerLevel(t) == 0

\* the index of the destination tile of the source tile t: the same grid
\* and local tile index, DefineAndReturnParticleTile(lev, pti.index(),
\* pti.LocalTileIndex())
DestinationTile(t) == t

\* the source tile and the destination tile of thread w
ThreadSource(w) ==
    mypc[gather_loop.i][gather_loop.lev][omp_threads[w].t]
ThreadBuffer(w) ==
    TileOf(m_particle_containers[gather_loop.b][gather_loop.i].tiles,
           gather_loop.lev, DestinationTile(omp_threads[w].t))

\* the buffers with the destination tile dt of the pass under way set to tile
WithTile(dt, tile) ==
    [m_particle_containers EXCEPT
        ![gather_loop.b][gather_loop.i].tiles[gather_loop.lev] =
            [tt \in (DOMAIN @) \cup {dt} |-> IF tt = dt THEN tile ELSE @[tt]]]

\* the call starts: the loop over the boundaries is entered
gatherEnter ==
    /\ Running
    /\ gather_loop.pc \in {"idle", "done"}
    \* the model follows a run while no tile holds more than MaxBuf
    /\ \A b \in Boundaries, i \in Species, lev \in Levels :
          LET after == GatherAll(m_particle_containers, mypc, istep)
          IN  \A t \in DOMAIN after[b][i].tiles[lev] :
                  Len(after[b][i].tiles[lev][t]) <= MaxBuf
    /\ gather_loop' = [pc |-> "boundary", b |-> 0, i |-> 0, lev |-> 0,
                       pending |-> {}, entry |-> m_particle_containers]
    /\ visits' = [x \in DOMAIN visits |-> 0]
    /\ UNCHANGED <<isPeriodic, m_do_boundary_buffer, m_particle_containers,
                   mypc, istep, call, omp_threads,
                   injector>>

\* the head of the loops over idim and iside, and the return of the call
\* after the pass of the embedded boundary
NextBoundary ==
    /\ gather_loop.pc = "boundary"
    /\ IF gather_loop.b >= numBoundaries
       THEN /\ gather_loop' = [gather_loop EXCEPT !.pc = "done"]
            /\ call' = [NoCall EXCEPT !.op = "gatherParticles"]
       ELSE /\ gather_loop' =
                  IF SkipsBoundary(gather_loop.b)
                  THEN [gather_loop EXCEPT !.b = @ + 1]
                  ELSE [gather_loop EXCEPT !.pc = "species", !.i = 0]
            /\ call' = call
    /\ UNCHANGED <<isPeriodic, m_do_boundary_buffer, m_particle_containers,
                   mypc, istep, omp_threads, visits,
                   injector>>

\* the head of the loop over the species: an inactive species is passed
\* over, the buffer of an active one is made if it is not defined
NextSpecies ==
    /\ gather_loop.pc = "species"
    /\ IF gather_loop.i >= NumSpecies
       THEN /\ gather_loop' = [gather_loop EXCEPT !.pc = "boundary",
                                                  !.b = @ + 1]
            /\ UNCHANGED m_particle_containers
       ELSE IF ~DoBuffer(gather_loop.b, gather_loop.i)
       THEN /\ gather_loop' = [gather_loop EXCEPT !.i = @ + 1]
            /\ UNCHANGED m_particle_containers
       ELSE /\ gather_loop' = [gather_loop EXCEPT !.pc = "level", !.lev = 0]
            /\ m_particle_containers' =
                  IF m_particle_containers[gather_loop.b][gather_loop.i].defined
                  THEN m_particle_containers
                  ELSE [m_particle_containers EXCEPT
                           ![gather_loop.b][gather_loop.i] =
                               make_alike(gather_loop.i)]
    /\ UNCHANGED <<isPeriodic, m_do_boundary_buffer, mypc, istep, call,
                   omp_threads, visits,
                   injector>>

\* the head of the loop over the levels: the parallel region starts with
\* the tiles the iterator goes through
NextLevel ==
    /\ gather_loop.pc = "level"
    /\ gather_loop' =
          IF gather_loop.lev >= NumLevels
          THEN [gather_loop EXCEPT !.pc = "species", !.i = @ + 1]
          ELSE [gather_loop EXCEPT !.pc = "tiles",
                    !.pending = DOMAIN mypc[gather_loop.i][gather_loop.lev]]
    /\ UNCHANGED <<isPeriodic, m_do_boundary_buffer, m_particle_containers,
                   mypc, istep, call, omp_threads, visits,
                   injector>>

\* a thread gets a tile from the iterator, which gives each tile to one
\* thread; the destination tile is defined; an empty tile ends the turn
TakeTile(w) ==
    /\ gather_loop.pc = "tiles"
    /\ omp_threads[w].phase = "idle"
    /\ \E t \in gather_loop.pending :
          LET ptile == mypc[gather_loop.i][gather_loop.lev][t]
              np == Len(ptile)
              ptile_buffer ==
                  TileOf(m_particle_containers[gather_loop.b][gather_loop.i].tiles,
                         gather_loop.lev, DestinationTile(t))
          IN  /\ gather_loop' = [gather_loop EXCEPT !.pending = @ \ {t}]
              /\ m_particle_containers' =
                    WithTile(DestinationTile(t), ptile_buffer)
              /\ visits' = [visits EXCEPT
                    ![<<gather_loop.b, gather_loop.i, gather_loop.lev, t>>] =
                        @ + 1]
              /\ omp_threads' = [omp_threads EXCEPT ![w] =
                    IF np = 0 THEN IdleThread
                    ELSE [IdleThread EXCEPT !.phase = "count", !.t = t]]
    /\ UNCHANGED <<isPeriodic, m_do_boundary_buffer, mypc, istep, call,
                   injector>>

\* reduce_op.eval: the thread counts the particles of its tile the
\* predicate selects
CountTile(w) ==
    /\ gather_loop.pc = "tiles"
    /\ omp_threads[w].phase = "count"
    /\ omp_threads' = [omp_threads EXCEPT ![w] =
          [@ EXCEPT !.phase = "resize",
                    !.count = CountMatches(PassFlags(ThreadSource(w)))]]
    /\ UNCHANGED <<isPeriodic, m_do_boundary_buffer, m_particle_containers,
                   mypc, istep, call, gather_loop, visits,
                   injector>>

\* dst_index = ptile_buffer.numParticles(); ptile_buffer.resize(...)
ResizeTile(w) ==
    /\ gather_loop.pc = "tiles"
    /\ omp_threads[w].phase = "resize"
    /\ LET species_buffer == m_particle_containers[gather_loop.b][gather_loop.i]
           dst_index == numParticles(ThreadBuffer(w))
       IN  /\ m_particle_containers' =
                 WithTile(DestinationTile(omp_threads[w].t),
                          resize(ThreadBuffer(w),
                                 dst_index + omp_threads[w].count,
                                 species_buffer.NumRuntimeRealComps,
                                 species_buffer.NumRuntimeIntComps))
           /\ omp_threads' = [omp_threads EXCEPT ![w] =
                 [@ EXCEPT !.phase = "write", !.dst_index = dst_index,
                           !.written = [j \in 1 .. omp_threads[w].count |-> 0]]]
    /\ UNCHANGED <<isPeriodic, m_do_boundary_buffer, mypc, istep, call,
                   gather_loop, visits,
                   injector>>

\* filterAndTransformParticles, one selected particle at a time: the k-th
\* is written at dst_index + k; after the last the thread is free again
WriteTile(w) ==
    /\ gather_loop.pc = "tiles"
    /\ omp_threads[w].phase = "write"
    /\ LET ptile == ThreadSource(w)
           sel == MatchingIndices(PassFlags(ptile), 1, Len(ptile))
           done == { j \in DOMAIN omp_threads[w].written :
                       omp_threads[w].written[j] > 0 }
           k == Cardinality(done) + 1
       IN  IF k > Len(sel)
           THEN /\ omp_threads' = [omp_threads EXCEPT ![w] =
                                      [@ EXCEPT !.phase = "idle"]]
                /\ UNCHANGED m_particle_containers
           ELSE /\ m_particle_containers' =
                      WithTile(DestinationTile(omp_threads[w].t),
                               [ThreadBuffer(w) EXCEPT
                                   ![omp_threads[w].dst_index + k] =
                                       PassTransform(ptile[sel[k]])])
                /\ omp_threads' = [omp_threads EXCEPT ![w] =
                      [@ EXCEPT !.written[k] = @ + 1]]
    /\ UNCHANGED <<isPeriodic, m_do_boundary_buffer, mypc, istep, call,
                   gather_loop, visits,
                   injector>>

\* variant that leaves the parallel region as soon as the threads are free
EndTiles_LeavesEarly ==
    /\ gather_loop.pc = "tiles"
    /\ \A w \in Threads : omp_threads[w].phase = "idle"
    /\ gather_loop' = [gather_loop EXCEPT !.pc = "level", !.lev = @ + 1,
                                          !.pending = {}]
    /\ omp_threads' = [w \in Threads |-> IdleThread]
    /\ UNCHANGED <<isPeriodic, m_do_boundary_buffer, m_particle_containers,
                   mypc, istep, call, visits,
                   injector>>

\* the end of the parallel region: the iterator is exhausted and every
\* thread is through with its tile
EndTiles ==
    /\ gather_loop.pc = "tiles"
    /\ gather_loop.pending = {}
    /\ \A w \in Threads : omp_threads[w].phase = "idle"
    /\ gather_loop' = [gather_loop EXCEPT !.pc = "level", !.lev = @ + 1]
    /\ omp_threads' = [w \in Threads |-> IdleThread]
    /\ UNCHANGED <<isPeriodic, m_do_boundary_buffer, m_particle_containers,
                   mypc, istep, call, visits,
                   injector>>

\* the statements of a gatherParticles call that is under way
PassStep ==
    \/ NextBoundary
    \/ NextSpecies
    \/ NextLevel
    \/ \E w \in Threads : TakeTile(w)
    \/ \E w \in Threads : CountTile(w)
    \/ \E w \in Threads : ResizeTile(w)
    \/ \E w \in Threads : WriteTile(w)
    \/ EndTiles

\* the driver's step between two calls
EvolveBetweenCalls ==
    /\ gather_loop.pc \in {"idle", "done"}
    /\ Evolve

PassNext ==
    \/ gatherEnter
    \/ PassStep
    \/ EvolveBetweenCalls

PassSpec == PassInit /\ [][PassNext]_vars

\* the move of thread w inside the compaction: it goes on to the slot it
\* writes next, or leaves the compaction when no slot is left
CompactionAdvances(w) ==
    /\ gather_loop.pc = "tiles"
    /\ omp_threads[w].phase = "write"
    /\ LET left == { k \in DOMAIN omp_threads[w].written :
                        omp_threads[w].written[k] = 0 }
       IN  omp_threads' = [omp_threads EXCEPT ![w] =
              IF left = {} THEN [@ EXCEPT !.phase = "idle"]
              ELSE [@ EXCEPT !.written[CHOOSE k \in left :
                                          \A j \in left : k <= j] = @ + 1]]

\* a call that is under way goes on: the calling thread runs the loops, and
\* each thread of the parallel region that can take a tile, count, resize
\* or go on in its compaction does so
FairPassSpec ==
    /\ PassSpec
    /\ WF_vars(NextBoundary \/ NextSpecies \/ NextLevel \/ EndTiles)
    /\ \A w \in Threads :
          /\ WF_vars(TakeTile(w) \/ CountTile(w) \/ ResizeTile(w))
          /\ WF_omp_threads(CompactionAdvances(w))

\* ------------------------------------ a runtime attribute added to the source
\* value of the component a species gained, in every particle it holds
LateValue == 40

\* pc.AddIntComp(name) on the source container of species s, called once
\* every buffer that a gather makes for s exists, so that make_alike has
\* copied the container's earlier list of components: each particle gets
\* one more runtime integer component
AddIntComp(s) ==
    /\ Running
    /\ \E b \in Boundaries :
          m_do_boundary_buffer[b][s] /\ ~SkipsBoundary(b)
    /\ \A b \in Boundaries :
          (m_do_boundary_buffer[b][s] /\ ~SkipsBoundary(b))
              => m_particle_containers[b][s].defined
    \* the species gains one component in a run
    /\ \A lev \in Levels : \A t \in DOMAIN mypc[s][lev] :
          \A ip \in 1 .. Len(mypc[s][lev][t]) :
              Len(mypc[s][lev][t][ip].runtime_idata) = NumRuntimeIntComps(s)
    /\ \E lev \in Levels : \E t \in DOMAIN mypc[s][lev] :
          Len(mypc[s][lev][t]) > 0
    /\ mypc' = [mypc EXCEPT ![s] =
          [lev \in Levels |-> [t \in DOMAIN mypc[s][lev] |->
              [ip \in 1 .. Len(mypc[s][lev][t]) |->
                  [mypc[s][lev][t][ip] EXCEPT
                      !.runtime_idata = Append(@, LateValue)]]]]]
    /\ call' = [NoCall EXCEPT !.op = "AddIntComp"]
    /\ UNCHANGED <<isPeriodic, m_do_boundary_buffer, m_particle_containers,
                   istep>>
    /\ UNCHANGED <<passvars, injector>>

LateCompNext ==
    \/ gatherParticles
    \/ \E s \in Species : AddIntComp(s)
    \/ Evolve

\* the runs in which a species gains a runtime integer attribute after its
\* buffers were made
LateCompSpec == Init /\ [][LateCompNext]_vars

\* ------------------------------------------------------- momentum sampling
\* reals of the sampling are fixed-point numbers: One stands for 1.0
One == 20

\* the minimum temperature parameter of the Maxwell-Juttner sampling, 0.1
JuttnerMinTheta == One \div 10

\* the values temperature(x,y,z) and velocity(x,y,z) take at the positions
\* a momentum is asked for
ThetaInputs == {0 - One, -1, 0, 1, JuttnerMinTheta, One \div 2, One}
BetaInputs == {0 - 2 * One, 0 - One, 1 - One, 0, One \div 2, One - 1, One, 2 * One}

\* what the random engine gives: standard normal deviates, uniform numbers
\* of the flipping test and of the unit vector, and the logarithms of
\* uniform numbers the rejection loop takes
NormalDraws == {0 - One, 0, One}
FlipDraws == {0, One \div 2}
UnitDraws == {0, One \div 2, One}
AngleDraws == {0, One \div 4}
NegLogProductDraws == {One, 3 * One}
LogDraws == {0 - 10 * One, 0 - One}

Directions == 0 .. 2

Abs(n) == IF n < 0 THEN 0 - n ELSE n

ISqrt(n) == CHOOSE r \in 0 .. n : r * r <= n /\ n < (r + 1) * (r + 1)

\* std::sqrt of a fixed-point number
FSqrt(a) == ISqrt(a * One)

\* quotient rounded towards zero
Quot(a, b) == IF (a >= 0) = (b >= 0) THEN Abs(a) \div Abs(b)
              ELSE 0 - (Abs(a) \div Abs(b))

\* product of two fixed-point numbers
FMul(a, b) == Quot(a * b, One)

\* sin and cos of 2 pi x2 at the quarter turns drawn
SinTurn(x2) == IF x2 = 0 THEN 0 ELSE One
CosTurn(x2) == IF x2 = 0 THEN One ELSE 0

\* amrex::Abort(msg): the process ends with the message, no value is
\* returned to the caller
Abort(msg) == [aborted |-> TRUE, msg |-> msg, ret |-> <<>>]

Return(u) == [aborted |-> FALSE, msg |-> "", ret |-> u]

\* the flipping method and the Lorentz transform of the component along
\* dir, the end of both sampling methods
FlipAndBoost(u, gamma, beta, dir, x1) ==
    LET flipped == IF 0 - (beta * u[dir]) > x1 * gamma
                   THEN [u EXCEPT ![dir] = 0 - u[dir]]
                   ELSE u
    IN  [flipped EXCEPT ![dir] =
            Quot(One * (flipped[dir] * One + gamma * beta),
                 One * ISqrt(One * One - beta * beta))]

\* variant that samples at zero temperature when theta is negative
InjectorMomentumBoltzmann_ClampsTheta(theta, beta, dir, n, x1) ==
    IF beta <= 0 - One \/ beta >= One
    THEN Abort("beta = v/c magnitude greater than or equal to 1")
    ELSE LET vave == FSqrt(IF theta < 0 THEN 0 ELSE theta)
             u == [d \in Directions |-> FMul(vave, n[d])]
             gamma == ISqrt(One * One + u[0] * u[0] + u[1] * u[1] + u[2] * u[2])
         IN  Return(FlipAndBoost(u, gamma, beta, dir, x1))

\* InjectorMomentumBoltzmann::getMomentum for the temperature theta and the
\* drift beta of the position, the boost direction dir, the three normal
\* deviates n and the uniform number x1 of the flipping test
InjectorMomentumBoltzmann_getMomentum(theta, beta, dir, n, x1) ==
    IF theta < 0
    THEN Abort("Negative temperature parameter theta encountered, which is not allowed")
    ELSE IF beta <= 0 - One \/ beta >= One
    THEN Abort("beta = v/c magnitude greater than or equal to 1")
    ELSE LET vave == FSqrt(theta)
             u == [d \in Directions |-> FMul(vave, n[d])]
             gamma == ISqrt(One * One + u[0] * u[0] + u[1] * u[1] + u[2] * u[2])
         IN  Return(FlipAndBoost(u, gamma, beta, dir, x1))

\* whether the rejection loop of the Maxwell-Juttner sampling ends with the
\* draws nlp = -log(r1 r2 r3) and lg = log(r4)
JuttnerAccepts(theta, nlp, lg) ==
    LET u == FMul(theta, nlp)
        gamma == ISqrt(One * One + u * u)
    IN  ~(u - gamma <= FMul(theta, lg))

\* InjectorMomentumJuttner::getMomentum for the temperature theta and the
\* drift beta of the position, the boost direction dir, the draws nlp and
\* lg of the last turn of the rejection loop, the draws x1 and x2 of the
\* unit vector and the draw x3 of the flipping test
InjectorMomentumJuttner_getMomentum(theta, beta, dir, nlp, lg, x1, x2, x3) ==
    IF theta < JuttnerMinTheta
    THEN Abort("Temeprature parameter theta is less than minimum 0.1 allowed for Maxwell-Juttner")
    ELSE IF beta <= 0 - One \/ beta >= One
    THEN Abort("beta = v/c magnitude greater than or equal to 1")
    ELSE LET speed == FMul(theta, nlp)
             gamma == ISqrt(One * One + speed * speed)
             spread == 2 * FSqrt(FMul(x1, One - x1))
             u == [d \in Directions |->
                     IF d = dir THEN FMul(speed, 2 * x1 - One)
                     ELSE IF d = (dir + 1) % 3
                     THEN FMul(FMul(speed, spread), SinTurn(x2))
                     ELSE FMul(FMul(speed, spread), CosTurn(x2))]
         IN  Return(FlipAndBoost(u, gamma, beta, dir, x3))

\* the record of a getMomentum call
MomentumCall(op, out) ==
    [op |-> op, boundary |-> -1, ret |-> out.ret, discarded |-> 0,
     aborted |-> out.aborted, msg |-> out.msg]

\* InjectorMomentum::getMomentum of an injector of type boltzmann
getMomentumBoltzmann ==
    /\ Running
    /\ injector.type = "boltzmann"
    /\ \E n \in [Directions -> NormalDraws], x1 \in FlipDraws :
          call' = MomentumCall("boltzmann.getMomentum",
                     InjectorMomentumBoltzmann_getMomentum(injector.theta,
                         injector.beta, injector.dir, n, x1))
    /\ UNCHANGED <<isPeriodic, m_do_boundary_buffer, m_particle_containers,
                   mypc, istep>>
    /\ UNCHANGED <<passvars, injector>>

\* InjectorMomentum::getMomentum of an injector of type juttner
getMomentumJuttner ==
    /\ Running
    /\ injector.type = "juttner"
    /\ \E nlp \in NegLogProductDraws, lg \in LogDraws :
          /\ injector.theta >= JuttnerMinTheta =>
                JuttnerAccepts(injector.theta, nlp, lg)
          /\ \E x1 \in UnitDraws, x2 \in AngleDraws, x3 \in FlipDraws :
                call' = MomentumCall("juttner.getMomentum",
                           InjectorMomentumJuttner_getMomentum(injector.theta,
                               injector.beta, injector.dir, nlp, lg, x1, x2, x3))
    /\ UNCHANGED <<isPeriodic, m_do_boundary_buffer, m_particle_containers,
                   mypc, istep>>
    /\ UNCHANGED <<passvars, injector>>

\* the state in which momenta are sampled: the species are being filled,
\* no buffer is in use; the injector was made with one of the two sampling
\* methods and a temperature and a drift
InjectInit ==
    /\ isPeriodic = [d \in Dims |-> FALSE]
    /\ m_do_boundary_buffer = [b \in Boundaries |-> [s \in Species |-> FALSE]]
    /\ m_particle_containers =
          [b \in Boundaries |-> [s \in Species |-> UndefinedContainer]]
    /\ mypc = [s \in Species |-> [lev \in Levels |-> EmptyLevel]]
    /\ istep = 0
    /\ call = NoCall
    /\ NoPass
    /\ injector \in [type : {"boltzmann", "juttner"}, theta : ThetaInputs,
                     beta : BetaInputs, dir : Directions]

InjectNext ==
    \/ getMomentumBoltzmann
    \/ getMomentumJuttner

InjectSpec == InjectInit /\ [][InjectNext]_vars

\* ------------------------------------------------------------ vocabulary
\* the (level, tile) pairs
AllTiles == Levels \X Tiles

\* the records a container holds, as (level, tile, index) triples
RecordsOf(container) ==
    UNION { { <<lt[1], lt[2], j>> :
                j \in 1 .. Len(TileOf(container.tiles, lt[1], lt[2])) } :
            lt \in AllTiles }

RecordAt(container, x) == container.tiles[x[1]][x[2]][x[3]]

\* the source particles of a species, as (level, tile, index) triples
ParticlesOf(s) ==
    UNION { { <<lt[1], lt[2], ip>> :
                ip \in 1 .. Len(TileOf(mypc[s], lt[1], lt[2])) } :
            lt \in AllTiles }

ParticleAt(s, x) == mypc[s][x[1]][x[2]][x[3]]

\* the "timestamp" component of a record: the last runtime integer
\* component of its container
TimestampOf(container, r) == r.runtime_idata[container.NumRuntimeIntComps]

\* the number of records of a container that carry the id, the position
\* and the fixed real attributes of particle p
CopiesOf(container, p) ==
    Cardinality({ x \in RecordsOf(container) :
                    /\ RecordAt(container, x).idcpu = p.idcpu
                    /\ RecordAt(container, x).pos = p.pos
                    /\ RecordAt(container, x).rdata = p.rdata })

\* the number of records of a container that carry the id of particle p
RecordsWithId(container, p) ==
    Cardinality({ x \in RecordsOf(container) :
                    RecordAt(container, x).idcpu = p.idcpu })

\* the number of records a container holds, defined or not
Held(container) ==
    Cardinality(RecordsOf(container))

\* the steps that are a call of gatherParticles
GatherStep == call'.op = "gatherParticles"

\* the steps that are a call of clearParticles(i)
ClearStep(i) == call'.op = "clearParticles" /\ call'.boundary = i

\* the steps that are a call of clearParticles()
ClearAllStep == call'.op = "clearParticlesAll"

\* the steps that are a call of redistribute
RedistributeStep == call'.op = "redistribute"

\* whether a particle of species s satisfies the predicate of boundary b
Matches(b, s) ==
    \E x \in ParticlesOf(s) :
        IF b = EBIndex
        THEN IsInsideEB(x[1], ParticleAt(s, x)) = 1
        ELSE IsOutsideDomainBoundary(plo, phi, b \div 2, b % 2,
                                     ParticleAt(s, x)) = 1

\* the signed distance interpolated at a position of a level
EBDistanceAt(lev, pos) ==
    doGatherScalarFieldNodal(lev, [x |-> pos[0], z |-> pos[1]])

\* the position a particle of a level had one time step earlier on the
\* straight line along its momentum
StartOfStep(lev, p) ==
    LET back == UpdatePosition(get_particle_position(p), p.rdata.ux,
                               p.rdata.uz, 0 - getdt(lev))
    IN  [d \in Dims |-> IF d = 0 THEN back.x ELSE back.z]

\* whether the distance at position pos is within the bisection tolerance
\* of zero: on the straight line of particle p the distance changes by its
\* difference between the two ends over the whole step, and by no more than
\* BisectTol / FracDen of that over the interval the bisection stops at
WithinBisectTol(lev, p, pos) ==
    Abs(EBDistanceAt(lev, pos)) * FracDen
        <= BisectTol * Abs(EBDistanceAt(lev, StartOfStep(lev, p))
                           - EBDistanceAt(lev, p.pos))

\* the records a gather appended to the tile lt of the embedded-boundary
\* buffer of species s that carry the id of the source particle p
AppendedAtEB(s, lt, p) ==
    LET old == TileOf(m_particle_containers[EBIndex][s].tiles, lt[1], lt[2])
        new == TileOf(m_particle_containers'[EBIndex][s].tiles, lt[1], lt[2])
    IN  { new[j] : j \in { k \in (Len(old) + 1) .. Len(new) :
                             new[k].idcpu = p.idcpu } }

\* the domain faces at which species s is buffered, whose dimension is not
\* periodic, and beyond which particle p lies
FacesLeft(s, p) ==
    { b \in Boundaries \ {EBIndex} :
        /\ m_do_boundary_buffer[b][s]
        /\ ~isPeriodic[b \div 2]
        /\ IsOutsideDomainBoundary(plo, phi, b \div 2, b % 2, p) = 1 }

\* the number of records a step appended to the tile lt of the buffer of
\* species s at boundary b that carry the id of the source particle p
AppendedCount(b, s, lt, p) ==
    LET old == TileOf(m_particle_containers[b][s].tiles, lt[1], lt[2])
        new == TileOf(m_particle_containers'[b][s].tiles, lt[1], lt[2])
    IN  Cardinality({ k \in (Len(old) + 1) .. Len(new) :
                        new[k].idcpu = p.idcpu })

\* the position of particle p of a level moved back along its momentum by
\* the fraction f / FracDen of the time step
MovedBack(lev, p, f) ==
    LET back == UpdatePosition(get_particle_position(p), p.rdata.ux,
                               p.rdata.uz, 0 - ((f * getdt(lev)) \div FracDen))
    IN  [d \in Dims |-> IF d = 0 THEN back.x ELSE back.z]

\* whether the fraction f / FracDen is within the bisection tolerance of
\* the fraction at which the distance, taken as linear in the fraction
\* between the end-of-step and the start-of-step position of p, is zero
NearAnalyticCrossing(lev, p, f) ==
    LET atEnd == EBDistanceAt(lev, p.pos)
        atStart == EBDistanceAt(lev, StartOfStep(lev, p))
    IN  Abs(f * (atStart - atEnd) - FracDen * (0 - atEnd))
            <= BisectTol * (atStart - atEnd)

AllBuffersEmpty ==
    \A b \in Boundaries, s \in Species : Held(m_particle_containers[b][s]) = 0

\* ------------------------------------------------------------------ C1
\* C1: a particle below the low bound of a non-periodic dimension d, of a
\* species active for (d, low), is after one gather from empty buffers
\* exactly once in the (d, low) buffer of its species and not in (d, high).
C1_LowFaceHoldsParticleOnce ==
    [][ (GatherStep /\ AllBuffersEmpty) =>
          \A d \in Dims, s \in Species :
              (~isPeriodic[d] /\ m_do_boundary_buffer[2 * d][s]) =>
                  \A x \in ParticlesOf(s) :
                      ParticleAt(s, x).pos[d] < plo[d] =>
                          /\ CopiesOf(m_particle_containers'[2 * d][s],
                                      ParticleAt(s, x)) = 1
                          /\ RecordsWithId(m_particle_containers'[2 * d][s],
                                           ParticleAt(s, x)) = 1
                          /\ RecordsWithId(m_particle_containers'[2 * d + 1][s],
                                           ParticleAt(s, x)) = 0 ]_vars

\* a gather has put the one particle below a low bound into the low buffer
\* of its species, which holds nothing else, and the high buffer is empty
C1_Witness ==
    /\ call.op = "gatherParticles"
    /\ \E d \in Dims, s \in Species :
          /\ ~isPeriodic[d]
          /\ m_do_boundary_buffer[2 * d][s]
          /\ m_do_boundary_buffer[2 * d + 1][s]
          /\ \E x \in ParticlesOf(s) :
                /\ ParticleAt(s, x).pos[d] < plo[d]
                /\ CopiesOf(m_particle_containers[2 * d][s],
                            ParticleAt(s, x)) = 1
                /\ Held(m_particle_containers[2 * d][s]) = 1
                /\ m_particle_containers[2 * d + 1][s].defined
                /\ Held(m_particle_containers[2 * d + 1][s]) = 0

\* ------------------------------------------------------------------ C2
\* C2: the two face buffers of a periodic dimension never hold a particle,
\* whatever the positions and the activation flags.
C2_PeriodicFacesStayEmpty ==
    \A d \in Dims, s \in Species, side \in Sides :
        isPeriodic[d] =>
            /\ Held(m_particle_containers[2 * d + side][s]) = 0
            /\ NumParticlesInContainer(m_particle_containers[2 * d + side], s) = 0

\* a gather ran while a particle of a species active for both faces of a
\* periodic dimension was outside the domain along that dimension
C2_Witness ==
    /\ call.op = "gatherParticles"
    /\ \E d \in Dims, s \in Species :
          /\ isPeriodic[d]
          /\ m_do_boundary_buffer[2 * d][s]
          /\ m_do_boundary_buffer[2 * d + 1][s]
          /\ \E x \in ParticlesOf(s) : ParticleAt(s, x).pos[d] < plo[d]
          /\ \E x \in ParticlesOf(s) : ParticleAt(s, x).pos[d] >= phi[d]

\* ------------------------------------------------------------------ C3
\* C3: the face predicate of (d, side) is true exactly when x_d < lo_d on
\* the low side, or x_d >= hi_d on the high side; a particle on the low
\* bound is not matched, one on the high bound is, and two particles with
\* the same x_d get the same answer.
C3_FacePredicate ==
    \A d \in Dims, side \in Sides, s \in Species :
        \A x \in ParticlesOf(s) :
            LET p == ParticleAt(s, x)
                out == IsOutsideDomainBoundary(plo, phi, d, side, p)
            IN  /\ out \in {0, 1}
                /\ (out = 1) <=> \/ (side = 0 /\ p.pos[d] < plo[d])
                                 \/ (side = 1 /\ p.pos[d] >= phi[d])
                /\ (side = 0 /\ p.pos[d] = plo[d]) => out = 0
                /\ (side = 1 /\ p.pos[d] = phi[d]) => out = 1
                /\ \A s2 \in Species : \A y \in ParticlesOf(s2) :
                      ParticleAt(s2, y).pos[d] = p.pos[d] =>
                          IsOutsideDomainBoundary(plo, phi, d, side,
                                                  ParticleAt(s2, y)) = out

\* after a gather, a particle on the low bound of a dimension is not in
\* the active low buffer and a particle on the high bound is in the active
\* high buffer
C3_Witness ==
    /\ call.op = "gatherParticles"
    /\ \E d \in Dims, s \in Species :
          /\ ~isPeriodic[d]
          /\ m_do_boundary_buffer[2 * d][s]
          /\ m_do_boundary_buffer[2 * d + 1][s]
          /\ \E x \in ParticlesOf(s) :
                /\ ParticleAt(s, x).pos[d] = plo[d]
                /\ RecordsWithId(m_particle_containers[2 * d][s],
                                 ParticleAt(s, x)) = 0
          /\ \E y \in ParticlesOf(s) :
                /\ ParticleAt(s, y).pos[d] = phi[d]
                /\ CopiesOf(m_particle_containers[2 * d + 1][s],
                            ParticleAt(s, y)) = 1

\* ------------------------------------------------------------------ C4
\* C4: every record a gather appends, to a face buffer or to the embedded
\* boundary buffer, on any level, carries the step index of that gather as
\* its timestamp, and the gather leaves the timestamps of the records that
\* were there unchanged.
C4_TimestampIsStep ==
    [][ GatherStep =>
          \A b \in Boundaries, s \in Species :
              LET old == m_particle_containers[b][s]
                  new == m_particle_containers'[b][s]
              IN  \A x \in RecordsOf(new) :
                      IF x \in RecordsOf(old)
                      THEN TimestampOf(new, RecordAt(new, x))
                               = TimestampOf(old, RecordAt(old, x))
                      ELSE TimestampOf(new, RecordAt(new, x)) = istep ]_vars

\* a gather at step 1 added to a tile that held a record of step 0, and
\* the embedded boundary buffer holds a record on a refined level
C4_Witness ==
    /\ call.op = "gatherParticles"
    /\ istep = 1
    /\ \E b \in Boundaries \ {EBIndex}, s \in Species :
          LET c == m_particle_containers[b][s]
          IN  \E x \in RecordsOf(c), y \in RecordsOf(c) :
                  /\ TimestampOf(c, RecordAt(c, x)) = 0
                  /\ TimestampOf(c, RecordAt(c, y)) = 1
    /\ \E s \in Species :
          LET c == m_particle_containers[EBIndex][s]
          IN  \E x \in RecordsOf(c) :
                  /\ x[1] > 0
                  /\ TimestampOf(c, RecordAt(c, x)) = 1

\* ------------------------------------------------------------------ C5
\* C5: a gather leaves the source containers as they were: the number of
\* particles of every tile and every attribute of every particle.
C5_SourceUntouched ==
    [][ GatherStep => mypc' = mypc ]_vars

\* a gather has buffered a particle, and the particle is still in its
\* source tile, outside the domain
C5_Witness ==
    /\ call.op = "gatherParticles"
    /\ \E d \in Dims, side \in Sides, s \in Species :
          \E x \in ParticlesOf(s) :
              /\ IsOutsideDomainBoundary(plo, phi, d, side,
                                         ParticleAt(s, x)) = 1
              /\ CopiesOf(m_particle_containers[2 * d + side][s],
                          ParticleAt(s, x)) >= 1

C7_CountNeverDropsInGather ==
    [][ GatherStep =>
          \A b \in Boundaries, s \in Species :
              NumParticlesInContainer(m_particle_containers'[b], s)
                  >= NumParticlesInContainer(m_particle_containers[b], s) ]_vars

\* a gather at step 1 found nothing to add to a buffer that holds a record
\* of step 0
C7_Witness ==
    /\ call.op = "gatherParticles"
    /\ istep = 1
    /\ \E b \in Boundaries, s \in Species :
          LET c == m_particle_containers[b][s]
          IN  /\ NumParticlesInContainer(m_particle_containers[b], s) = 1
              /\ \A x \in RecordsOf(c) : TimestampOf(c, RecordAt(c, x)) = 0
              /\ ParticlesOf(s) # {}

\* ------------------------------------------------------------------ C8
\* C8: no call returns a defined buffer container to the undefined state.
C8_DefinedStaysDefined ==
    [][ \A b \in Boundaries, s \in Species :
            m_particle_containers[b][s].defined
                => m_particle_containers'[b][s].defined ]_vars

\* all boundaries were cleared, records were discarded, and a buffer is
\* defined
C8_Witness ==
    /\ call.op = "clearParticlesAll"
    /\ call.discarded > 0
    /\ \E b \in Boundaries, s \in Species : m_particle_containers[b][s].defined

\* ------------------------------------------------------------------ C9
\* C9: a gather only appends: the records of a tile stay at their indices
\* with all their values, and every index from the old size upward holds
\* a record this gather wrote.
C9_GatherOnlyAppends ==
    [][ GatherStep =>
          \A b \in Boundaries, s \in Species, lt \in AllTiles :
              LET old == TileOf(m_particle_containers[b][s].tiles, lt[1], lt[2])
                  new == TileOf(m_particle_containers'[b][s].tiles, lt[1], lt[2])
                  src == TileOf(mypc[s], lt[1], lt[2])
              IN  /\ Len(new) >= Len(old)
                  /\ \A j \in 1 .. Len(old) : new[j] = old[j]
                  /\ \A j \in (Len(old) + 1) .. Len(new) :
                        /\ new[j].idcpu # Uninit
                        /\ new[j].idcpu \in
                              { src[ip].idcpu : ip \in 1 .. Len(src) }
                        /\ TimestampOf(m_particle_containers'[b][s], new[j])
                               = istep ]_vars

\* a tile holds a record of step 0 at index 1 and, after a gather at
\* step 1, a record of step 1 at index 2
C9_Witness ==
    /\ call.op = "gatherParticles"
    /\ \E b \in Boundaries, s \in Species, lt \in AllTiles :
          LET c == m_particle_containers[b][s]
              tile == TileOf(c.tiles, lt[1], lt[2])
          IN  /\ Len(tile) = 2
              /\ TimestampOf(c, tile[1]) = 0
              /\ TimestampOf(c, tile[2]) = 1

\* ----------------------------------------------------------------- C10
\* C10: clearParticles leaves every buffer of the boundary with a count of
\* 0, whether it held records or not, and as defined as it was; a
\* getNumParticlesInContainer that follows returns 0 and a
\* getParticleBuffer that follows does not fail for an active pair whose
\* buffer was defined.
C10_ClearKeepsDefined ==
    [][ /\ \A i \in Boundaries :
              ClearStep(i) =>
                  \A s \in Species :
                      /\ Held(m_particle_containers'[i][s]) = 0
                      /\ m_particle_containers'[i][s].defined
                             = m_particle_containers[i][s].defined
        /\ \A s \in Species :
              (call.op = "clearParticles"
                  /\ getNumParticlesInContainer(s, call.boundary))
                  => call'.ret = 0
        /\ \A s \in Species :
              (/\ call.op = "clearParticles"
               /\ m_do_boundary_buffer[call.boundary][s]
               /\ m_particle_containers[call.boundary][s].defined
               /\ getParticleBuffer(s, call.boundary))
                  => ~call'.aborted ]_vars

\* a clearParticles(i) discarded records of a buffer that is still defined
C10_Witness ==
    /\ call.op = "clearParticles"
    /\ call.discarded > 0
    /\ \E s \in Species :
          /\ m_particle_containers[call.boundary][s].defined
          /\ m_do_boundary_buffer[call.boundary][s]
          /\ Held(m_particle_containers[call.boundary][s]) = 0

\* ----------------------------------------------------------------- C11
\* C11: clearParticles(i) empties the buffers of every species at boundary
\* i and leaves the buffers of every other boundary as they were;
\* clearParticles() empties the buffers of all boundaries.
C11_ClearOnlyThatBoundary ==
    [][ /\ \A i \in Boundaries :
              ClearStep(i) =>
                  /\ \A s \in Species :
                        /\ Held(m_particle_containers'[i][s]) = 0
                        /\ NumParticlesInContainer(m_particle_containers'[i], s) = 0
                  /\ \A b \in Boundaries \ {i} :
                        m_particle_containers'[b] = m_particle_containers[b]
        /\ ClearAllStep =>
              \A b \in Boundaries, s \in Species :
                  /\ Held(m_particle_containers'[b][s]) = 0
                  /\ NumParticlesInContainer(m_particle_containers'[b], s) = 0 ]_vars

\* a clearParticles(i) discarded records while a buffer of another boundary
\* holds records
C11_Witness ==
    /\ call.op = "clearParticles"
    /\ call.discarded > 0
    /\ \A s \in Species : Held(m_particle_containers[call.boundary][s]) = 0
    /\ \E b \in Boundaries \ {call.boundary}, s \in Species :
          Held(m_particle_containers[b][s]) > 0
\* ----------------------------------------------------------------- C12
\* C12 as stated: redistribute removes from every defined buffer exactly
\* the records whose id is negative and keeps every other record with all
\* its values.
C12_RemovesNegativeIds ==
    [][ RedistributeStep =>
          \A b \in Boundaries, s \in Species :
              m_particle_containers[b][s].defined =>
                  \A lt \in AllTiles :
                      TileOf(m_particle_containers'[b][s].tiles, lt[1], lt[2])
                          = SelectSeq(TileOf(m_particle_containers[b][s].tiles,
                                             lt[1], lt[2]),
                                      LAMBDA r : r.idcpu >= 0) ]_vars

\* C12 amended: redistribute removes no record from a defined buffer: every
\* record, with a negative id or not, stays at its index with all its
\* values.
C12_KeepsEveryRecord ==
    [][ RedistributeStep =>
          \A b \in Boundaries, s \in Species :
              m_particle_containers[b][s].defined =>
                  /\ m_particle_containers'[b][s].defined
                  /\ \A lt \in AllTiles :
                        TileOf(m_particle_containers'[b][s].tiles, lt[1], lt[2])
                            = TileOf(m_particle_containers[b][s].tiles,
                                     lt[1], lt[2]) ]_vars

\* a redistribute ran on buffers that hold a record with a negative id and
\* a record with a positive id
C12_Witness ==
    /\ call.op = "redistribute"
    /\ \E b \in Boundaries, s \in Species :
          LET c == m_particle_containers[b][s]
          IN  c.defined /\ \E x \in RecordsOf(c) : RecordAt(c, x).idcpu < 0
    /\ \E b \in Boundaries, s \in Species :
          LET c == m_particle_containers[b][s]
          IN  c.defined /\ \E x \in RecordsOf(c) : RecordAt(c, x).idcpu > 0
\* ----------------------------------------------------------------- C13
\* C13: redistribute leaves an undefined buffer as it was, undefined, and
\* the count getNumParticlesInContainer returns for such a pair afterwards
\* is 0.
C13_RedistributeSkipsUndefined ==
    [][ /\ RedistributeStep =>
              \A b \in Boundaries, s \in Species :
                  ~m_particle_containers[b][s].defined =>
                      /\ ~m_particle_containers'[b][s].defined
                      /\ m_particle_containers'[b][s]
                             = m_particle_containers[b][s]
                      /\ NumParticlesInContainer(m_particle_containers'[b], s) = 0
        /\ \A b \in Boundaries, s \in Species :
              (/\ call.op = "redistribute"
               /\ ~m_particle_containers[b][s].defined
               /\ getNumParticlesInContainer(s, b))
                  => (call'.ret = 0 /\ ~call'.aborted) ]_vars

\* a redistribute ran while a buffer was undefined and another buffer held
\* records
C13_Witness ==
    /\ call.op = "redistribute"
    /\ \E b \in Boundaries, s \in Species :
          ~m_particle_containers[b][s].defined
    /\ \E b \in Boundaries, s \in Species :
          /\ m_particle_containers[b][s].defined
          /\ Held(m_particle_containers[b][s]) > 0
\* ----------------------------------------------------------------- C14
\* C14: getNumParticlesInContainer(species, boundary) returns the number of
\* records the pair's buffer holds, without failing and without changing
\* anything; for an undefined buffer, of an active pair or not, it
\* returns 0.
C14_CountIsRecordsHeld ==
    [][ \A b \in Boundaries, s \in Species :
            getNumParticlesInContainer(s, b) =>
                /\ call'.ret = Held(m_particle_containers[b][s])
                /\ ~call'.aborted
                /\ ~m_particle_containers[b][s].defined => call'.ret = 0
                /\ m_particle_containers' = m_particle_containers
                /\ mypc' = mypc ]_vars

\* getNumParticlesInContainer returned 2 for a buffer that holds two
\* records, while the buffer of a pair that is not active is undefined
C14_Witness ==
    /\ call.op = "getNumParticlesInContainer"
    /\ call.ret = 2
    /\ \E b \in Boundaries, s \in Species :
          Held(m_particle_containers[b][s]) = 2
    /\ \E b \in Boundaries, s \in Species :
          /\ ~m_do_boundary_buffer[b][s]
          /\ ~m_particle_containers[b][s].defined
\* ----------------------------------------------------------------- C15
\* C15: getParticleBuffer(species, boundary) fails with a fatal assertion
\* exactly when the pair is not active or its buffer is not defined, returns
\* the container otherwise, and changes no buffer.
C15_BufferAssertions ==
    [][ \A b \in Boundaries, s \in Species :
            getParticleBuffer(s, b) =>
                /\ call'.aborted <=>
                       \/ ~m_do_boundary_buffer[b][s]
                       \/ ~m_particle_containers[b][s].defined
                /\ m_particle_containers' = m_particle_containers
                /\ mypc' = mypc ]_vars

\* a getParticleBuffer failed while the buffer of an active pair is
\* undefined, the buffer of another active pair is defined and a pair is
\* not active
C15_Witness ==
    /\ call.op = "getParticleBuffer"
    /\ call.aborted
    /\ \E b \in Boundaries, s \in Species :
          /\ m_do_boundary_buffer[b][s]
          /\ ~m_particle_containers[b][s].defined
    /\ \E b \in Boundaries, s \in Species :
          /\ m_do_boundary_buffer[b][s]
          /\ m_particle_containers[b][s].defined
    /\ \E b \in Boundaries, s \in Species : ~m_do_boundary_buffer[b][s]
\* ----------------------------------------------------------------- C16
\* C16: getParticleBufferPointer(species, boundary) fails with a fatal
\* assertion when the pair is not active or its buffer is not defined, as
\* getParticleBuffer does.
C16_PointerAssertions ==
    [][ \A b \in Boundaries, s \in Species :
            getParticleBufferPointer(s, b) =>
                (call'.aborted <=>
                    \/ ~m_do_boundary_buffer[b][s]
                    \/ ~m_particle_containers[b][s].defined) ]_vars
\* ----------------------------------------------------------------- C17
\* C17 as stated: a buffer stays undefined through every gather in which no
\* particle of its species matches its boundary.
C17_UndefinedUntilAMatch ==
    [][ GatherStep =>
          \A b \in Boundaries, s \in Species :
              (~m_particle_containers[b][s].defined /\ ~Matches(b, s))
                  => ~m_particle_containers'[b][s].defined ]_vars

\* C17 amended: a gather defines the undefined buffer of every active pair
\* whose boundary is the embedded boundary or a face of a non-periodic
\* dimension, whether a particle matches or not, and of no other pair; no
\* other call defines a buffer.
C17_DefinedByFirstGather ==
    [][ /\ GatherStep =>
              \A b \in Boundaries, s \in Species :
                  m_particle_containers'[b][s].defined <=>
                      \/ m_particle_containers[b][s].defined
                      \/ /\ m_do_boundary_buffer[b][s]
                         /\ b # EBIndex => ~isPeriodic[b \div 2]
        /\ ~GatherStep =>
              \A b \in Boundaries, s \in Species :
                  m_particle_containers'[b][s].defined
                      = m_particle_containers[b][s].defined ]_vars

\* after the gathers of step 0 a buffer is defined and empty though no
\* particle of its species, which has particles, matches its boundary
C17_Witness ==
    /\ call.op = "gatherParticles"
    /\ istep = 0
    /\ \E b \in Boundaries, s \in Species :
          /\ m_particle_containers[b][s].defined
          /\ Held(m_particle_containers[b][s]) = 0
          /\ ParticlesOf(s) # {}
          /\ ~Matches(b, s)
\* ----------------------------------------------------------------- C18
\* C18: right after construction there is one buffer slot for each of the
\* 2 * AMREX_SPACEDIM + 1 boundaries and each species, every slot is
\* undefined and its count is 0.
C18_SlotsAfterConstruction ==
    call.op = "init" =>
        /\ DOMAIN m_particle_containers = 0 .. (2 * AMREX_SPACEDIM)
        /\ Cardinality(DOMAIN m_particle_containers) = 2 * AMREX_SPACEDIM + 1
        /\ \A b \in DOMAIN m_particle_containers :
              /\ DOMAIN m_particle_containers[b] = 0 .. (NumSpecies - 1)
              /\ DOMAIN m_do_boundary_buffer[b] = 0 .. (NumSpecies - 1)
              /\ \A s \in DOMAIN m_particle_containers[b] :
                    /\ ~m_particle_containers[b][s].defined
                    /\ Held(m_particle_containers[b][s]) = 0
                    /\ NumParticlesInContainer(m_particle_containers[b], s) = 0

\* the manager was constructed, with an active pair whose species has a
\* particle that matches the boundary, and nothing was called
C18_Witness ==
    /\ call.op = "init"
    /\ \E b \in Boundaries, s \in Species :
          m_do_boundary_buffer[b][s] /\ Matches(b, s)
\* ----------------------------------------------------------------- C19
\* C19: the buffer of a pair whose activation flag is false is undefined
\* and its count is 0 in every state; every defined buffer is that of an
\* active pair.
C19_InactiveNeverBuffered ==
    \A b \in Boundaries, s \in Species :
        /\ ~m_do_boundary_buffer[b][s] =>
              /\ ~m_particle_containers[b][s].defined
              /\ Held(m_particle_containers[b][s]) = 0
              /\ NumParticlesInContainer(m_particle_containers[b], s) = 0
        /\ m_particle_containers[b][s].defined => m_do_boundary_buffer[b][s]

\* a gather ran while a particle matched a boundary that is not skipped
\* and at which its species is not active but another species is
C19_Witness ==
    /\ call.op = "gatherParticles"
    /\ \E b \in Boundaries, s \in Species :
          /\ ~m_do_boundary_buffer[b][s]
          /\ Matches(b, s)
          /\ b # EBIndex => ~isPeriodic[b \div 2]
          /\ ~m_particle_containers[b][s].defined
          /\ \E s2 \in Species :
                /\ m_do_boundary_buffer[b][s2]
                /\ m_particle_containers[b][s2].defined
\* ----------------------------------------------------------------- C20
\* C20: in a gather, the records appended to a tile of the embedded-boundary
\* buffer of an active species are, in order, those of the tile's particles
\* at whose position the interpolated signed distance is strictly negative;
\* a particle at which it is zero or positive adds no record.
C20_EBPredicate ==
    [][ GatherStep =>
          \A s \in Species : m_do_boundary_buffer[EBIndex][s] =>
              \A lt \in AllTiles :
                  LET src == TileOf(mypc[s], lt[1], lt[2])
                      old == TileOf(m_particle_containers[EBIndex][s].tiles,
                                    lt[1], lt[2])
                      new == TileOf(m_particle_containers'[EBIndex][s].tiles,
                                    lt[1], lt[2])
                      phi_value(p) ==
                          doGatherScalarFieldNodal(lt[1],
                                                   get_particle_position(p))
                      inside == SelectSeq(src, LAMBDA p : phi_value(p) < 0)
                  IN  /\ Len(new) = Len(old) + Len(inside)
                      /\ \A j \in 1 .. Len(inside) :
                            new[Len(old) + j].idcpu = inside[j].idcpu
                      /\ \A ip \in 1 .. Len(src) :
                            phi_value(src[ip]) >= 0 =>
                                \A j \in (Len(old) + 1) .. Len(new) :
                                    new[j].idcpu # src[ip].idcpu ]_vars

\* a gather ran for a species active at the embedded boundary that has a
\* particle exactly on the surface, which the buffer does not hold
C20_Witness ==
    /\ call.op = "gatherParticles"
    /\ \E s \in Species :
          /\ m_do_boundary_buffer[EBIndex][s]
          /\ m_particle_containers[EBIndex][s].defined
          /\ \E x \in ParticlesOf(s) :
                /\ doGatherScalarFieldNodal(x[1],
                       get_particle_position(ParticleAt(s, x))) = 0
                /\ RecordsWithId(m_particle_containers[EBIndex][s],
                                 ParticleAt(s, x)) = 0
C22_CornerExitInEveryFace ==
    [][ GatherStep =>
          \A s \in Species : \A lt \in AllTiles :
              LET src == TileOf(mypc[s], lt[1], lt[2])
              IN  \A ip \in 1 .. Len(src) :
                      Cardinality(FacesLeft(s, src[ip])) >= 2 =>
                          \A b \in Boundaries \ {EBIndex} :
                              AppendedCount(b, s, lt, src[ip]) =
                                  IF b \in FacesLeft(s, src[ip]) THEN 1 ELSE 0
      ]_vars

\* a gather ran for a particle beyond two active faces of non-periodic
\* dimensions: the buffer of each holds a record of it stamped with this
\* step
C22_Witness ==
    /\ call.op = "gatherParticles"
    /\ \E s \in Species : \E x \in ParticlesOf(s) :
          /\ Cardinality(FacesLeft(s, ParticleAt(s, x))) >= 2
          /\ \A b \in FacesLeft(s, ParticleAt(s, x)) :
                \E y \in RecordsOf(m_particle_containers[b][s]) :
                    LET r == RecordAt(m_particle_containers[b][s], y)
                    IN  /\ r.idcpu = ParticleAt(s, x).idcpu
                        /\ r.pos = ParticleAt(s, x).pos
                        /\ TimestampOf(m_particle_containers[b][s], r) = istep
\* ---------------------------------------- vocabulary of the call under way
\* the destination tile of thread w before and after a step
TileBefore(w) ==
    TileOf(m_particle_containers[gather_loop.b][gather_loop.i].tiles,
           gather_loop.lev, DestinationTile(omp_threads[w].t))
TileAfter(w) ==
    TileOf(m_particle_containers'[gather_loop.b][gather_loop.i].tiles,
           gather_loop.lev, DestinationTile(omp_threads[w].t))

\* the number of particles of the source tile of thread w that satisfy the
\* predicate of the pass under way
MatchingInTile(w) ==
    Cardinality({ ip \in 1 .. Len(ThreadSource(w)) :
                    PassFlags(ThreadSource(w))[ip] # 0 })

\* the steps of thread w: its resize, one write of its compaction, the
\* end of its compaction
ResizeBy(w) ==
    omp_threads[w].phase = "resize" /\ omp_threads'[w].phase = "write"
WriteBy(w) ==
    /\ omp_threads[w].phase = "write" /\ omp_threads'[w].phase = "write"
    /\ omp_threads'[w] # omp_threads[w]
FinishBy(w) ==
    omp_threads[w].phase = "write" /\ omp_threads'[w].phase = "idle"

\* the call under way has just returned: nothing was called since
GatherReturned == gather_loop.pc = "done" /\ call.op = "gatherParticles"

\* the length of every tile of every buffer, absent tiles counting for empty
TileLengths(bufs) ==
    [x \in Boundaries \X Species \X Levels \X Tiles |->
        Len(TileOf(bufs[x[1]][x[2]].tiles, x[3], x[4]))]

\* ----------------------------------------------------------------- C23
\* C23: in a gather followed statement by statement, the resize of a
\* destination tile comes after the count and before any write, and makes
\* the tile exactly its size before plus the number of particles of the
\* source tile that satisfy the predicate, its records kept; each write of
\* the compaction fills one index of the reserved range not written yet;
\* the compaction ends when every reserved index was written once; no other
\* step changes the size of a tile (an empty tile or a tile with no match
\* leaves it as it was), and no step fails.
C23_ResizeOnceThenCompact ==
    [][ /\ \A w \in Threads :
              /\ ResizeBy(w) =>
                    /\ omp_threads[w].count = MatchingInTile(w)
                    /\ omp_threads'[w].dst_index = Len(TileBefore(w))
                    /\ Len(TileAfter(w)) = Len(TileBefore(w)) + MatchingInTile(w)
                    /\ \A j \in 1 .. Len(TileBefore(w)) :
                          TileAfter(w)[j] = TileBefore(w)[j]
                    /\ DOMAIN omp_threads'[w].written = 1 .. MatchingInTile(w)
                    /\ \A j \in DOMAIN omp_threads'[w].written :
                          omp_threads'[w].written[j] = 0
              /\ WriteBy(w) =>
                    \E k \in 1 .. MatchingInTile(w) :
                        LET j == omp_threads[w].dst_index + k
                        IN  /\ omp_threads[w].written[k] = 0
                            /\ omp_threads'[w].written =
                                  [omp_threads[w].written EXCEPT ![k] = 1]
                            /\ j \in DOMAIN TileBefore(w)
                            /\ TileBefore(w)[j].idcpu = Uninit
                            /\ TileAfter(w)[j].idcpu # Uninit
                            /\ TileAfter(w) =
                                  [TileBefore(w) EXCEPT ![j] = TileAfter(w)[j]]
              /\ FinishBy(w) =>
                    /\ DOMAIN omp_threads[w].written = 1 .. MatchingInTile(w)
                    /\ \A k \in DOMAIN omp_threads[w].written :
                          omp_threads[w].written[k] = 1
                    /\ Len(TileBefore(w)) =
                          omp_threads[w].dst_index + MatchingInTile(w)
                    /\ m_particle_containers' = m_particle_containers
        /\ TileLengths(m_particle_containers') # TileLengths(m_particle_containers)
              => \E w \in Threads : ResizeBy(w) /\ MatchingInTile(w) > 0
        /\ ~call'.aborted ]_vars

\* a thread wrote the last record of a compaction into a tile that held a
\* record before the resize, while another tile of the level was taken and
\* found empty or without a match
C23_Witness ==
    /\ gather_loop.pc = "tiles"
    /\ \E w \in Threads :
          /\ omp_threads[w].phase = "write"
          /\ omp_threads[w].dst_index >= 1
          /\ omp_threads[w].count >= 1
          /\ \A k \in DOMAIN omp_threads[w].written :
                omp_threads[w].written[k] = 1
          /\ Len(ThreadBuffer(w)) =
                omp_threads[w].dst_index + omp_threads[w].count
          /\ \E t \in DOMAIN mypc[gather_loop.i][gather_loop.lev] :
                /\ t # omp_threads[w].t
                /\ t \notin gather_loop.pending
                /\ \A v \in Threads : v # w => omp_threads[v].phase = "idle"
                /\ visits[<<gather_loop.b, gather_loop.i, gather_loop.lev, t>>] = 1
                /\ CountMatches(PassFlags(
                       mypc[gather_loop.i][gather_loop.lev][t])) = 0
\* ----------------------------------------------------------------- C24
\* C24: while the threads of a parallel region work at the tiles of a
\* level, the threads that hold a tile hold different source tiles with
\* different destination tiles; a resize or a write of a thread changes its
\* own destination tile and nothing else; the destination tile of a thread
\* that does not move is not changed by another; and a thread writes a
\* record only into a tile its resize has brought to dst_index plus the
\* count.
C24_OneWriterPerTile ==
    [][ /\ \A w, v \in Threads :
              (/\ w # v
               /\ omp_threads'[w].phase # "idle"
               /\ omp_threads'[v].phase # "idle") =>
                  /\ omp_threads'[w].t # omp_threads'[v].t
                  /\ DestinationTile(omp_threads'[w].t)
                        # DestinationTile(omp_threads'[v].t)
        /\ \A w \in Threads :
              /\ (ResizeBy(w) \/ WriteBy(w)) =>
                    /\ m_particle_containers' =
                          WithTile(DestinationTile(omp_threads[w].t),
                                   TileAfter(w))
                    /\ \A v \in Threads \ {w} :
                          omp_threads'[v] = omp_threads[v]
              /\ WriteBy(w) =>
                    Len(TileBefore(w)) =
                        omp_threads[w].dst_index + omp_threads[w].count
              /\ (/\ omp_threads[w].phase # "idle"
                  /\ omp_threads'[w] = omp_threads[w]) =>
                    TileAfter(w) = TileBefore(w) ]_vars

\* two threads are in the middle of their compactions at once, each with
\* its own tile resized, one with a record written and one with none yet
C24_Witness ==
    /\ gather_loop.pc = "tiles"
    /\ \E w, v \in Threads :
          /\ w # v
          /\ omp_threads[w].phase = "write"
          /\ omp_threads[v].phase = "write"
          /\ omp_threads[w].count >= 2
          /\ omp_threads[v].count >= 1
          /\ omp_threads[w].written[1] = 1
          /\ omp_threads[w].written[2] = 0
          /\ omp_threads[v].written[1] = 0
          /\ omp_threads[w].t # omp_threads[v].t
\* ----------------------------------------------------------------- C25
\* C25: whatever the order in which the threads took the tiles, a gather
\* that returns leaves the buffers that the source particles, the geometry,
\* the step index and the buffers at its entry determine; the records it
\* appended to a tile are those a call with the same source, geometry and
\* step appends to buffers never used before.
C25_GatherIsDeterministic ==
    GatherReturned =>
        /\ m_particle_containers = GatherAll(gather_loop.entry, mypc, istep)
        /\ LET fresh == GatherAll([b \in Boundaries |-> [s \in Species |->
                                      UndefinedContainer]], mypc, istep)
           IN  \A b \in Boundaries, s \in Species, lt \in AllTiles :
                   TileOf(m_particle_containers[b][s].tiles, lt[1], lt[2]) =
                       TileOf(gather_loop.entry[b][s].tiles, lt[1], lt[2])
                       \o TileOf(fresh[b][s].tiles, lt[1], lt[2])

\* a second gather of the same step returned: a tile holds the records the
\* first call made, followed by the same records once more
C25_Witness ==
    /\ GatherReturned
    /\ mypc # [s \in Species |-> [lev \in Levels |-> EmptyLevel]]
    /\ \E b \in Boundaries, s \in Species, lt \in AllTiles :
          LET before == TileOf(gather_loop.entry[b][s].tiles, lt[1], lt[2])
              now == TileOf(m_particle_containers[b][s].tiles, lt[1], lt[2])
          IN  /\ Len(before) >= 1
              /\ now = before \o before
              /\ \E c \in Boundaries \ {b} : \E lu \in AllTiles :
                    Len(TileOf(m_particle_containers[c][s].tiles,
                               lu[1], lu[2])) >= 2
\* ----------------------------------------------------------------- C26
\* C26: each gather adds, for a particle beyond an active face of a
\* non-periodic dimension, one record stamped with the step of that gather
\* to the face's buffer, whether or not the buffer holds records of the
\* particle already, and leaves those as they are: k gathers in a row make
\* k records.
C26_OneRecordPerGather ==
    [][ GatherStep =>
          \A s \in Species : \A lt \in AllTiles :
              LET src == TileOf(mypc[s], lt[1], lt[2])
              IN  \A ip \in 1 .. Len(src) : \A b \in FacesLeft(s, src[ip]) :
                      LET old == TileOf(m_particle_containers[b][s].tiles,
                                        lt[1], lt[2])
                          new == TileOf(m_particle_containers'[b][s].tiles,
                                        lt[1], lt[2])
                      IN  /\ AppendedCount(b, s, lt, src[ip]) = 1
                          /\ Len(new) >= Len(old)
                          /\ \A j \in 1 .. Len(old) : new[j] = old[j]
                          /\ \A j \in (Len(old) + 1) .. Len(new) :
                                new[j].idcpu = src[ip].idcpu =>
                                    TimestampOf(m_particle_containers'[b][s],
                                                new[j]) = istep ]_vars

\* the gathers of steps 0 and 1 ran with no clear between them for a
\* particle beyond a face at both steps: the buffer holds two records of
\* it, stamped 0 and 1
C26_Witness ==
    /\ call.op = "gatherParticles"
    /\ istep = 1
    /\ \E s \in Species : \E x \in ParticlesOf(s) :
          \E b \in FacesLeft(s, ParticleAt(s, x)) :
              LET buf == m_particle_containers[b][s]
                  mine == { y \in RecordsOf(buf) :
                              RecordAt(buf, y).idcpu = ParticleAt(s, x).idcpu }
              IN  /\ Cardinality(mine) = 2
                  /\ { TimestampOf(buf, RecordAt(buf, y)) : y \in mine }
                        = {0, 1}
C28_TimestampSlotOfItsOwn ==
    [][ GatherStep =>
          \A b \in Boundaries, s \in Species, lt \in AllTiles :
              LET src == TileOf(mypc[s], lt[1], lt[2])
                  old == TileOf(m_particle_containers[b][s].tiles, lt[1], lt[2])
                  new == TileOf(m_particle_containers'[b][s].tiles, lt[1], lt[2])
                  slot == m_particle_containers'[b][s].NumRuntimeIntComps
              IN  \A ip \in 1 .. Len(src) :
                      \A k \in (Len(old) + 1) .. Len(new) :
                          new[k].idcpu = src[ip].idcpu =>
                              LET copied == 1 .. Len(src[ip].runtime_idata)
                              IN  /\ slot \notin copied
                                  /\ copied \subseteq 1 .. slot
                                  /\ new[k].runtime_idata[slot] = istep
                                  /\ \A j \in copied \cap (1 .. slot) :
                                        new[k].runtime_idata[j] =
                                            src[ip].runtime_idata[j] ]_vars
\* ----------------------------------------------------------------- C29
\* the call entered the body of the tile loop once for every domain face
\* of a non-periodic dimension and the embedded boundary, every species
\* active there, every level and every tile the source holds at that level,
\* and for nothing else
FullPass ==
    \A b \in Boundaries, i \in Species, lev \in Levels, t \in Tiles :
        visits[<<b, i, lev, t>>] =
            IF /\ ~SkipsBoundary(b)
               /\ m_do_boundary_buffer[b][i]
               /\ t \in DOMAIN mypc[i][lev]
            THEN 1 ELSE 0

\* C29: a gatherParticles call that is under way returns, and a call that
\* has returned has made the full pass, each combination once; the call
\* has no return before the loops end.
C29_ReturnsAfterFullPass ==
    /\ (gather_loop.pc \notin {"idle", "done"}) ~> (gather_loop.pc = "done")
    /\ [](GatherReturned => FullPass)
    /\ [][gather_loop'.pc = "done" /\ gather_loop.pc # "done" =>
             /\ gather_loop.pc = "boundary"
             /\ gather_loop.b = numBoundaries
             /\ FullPass']_vars

\* a call returned after passes that took two tiles of a level for one
\* pair, passed over a periodic dimension or an inactive species, and
\* appended a record
C29_Witness ==
    /\ GatherReturned
    /\ \E b \in Boundaries, i \in Species, lev \in Levels :
          \E t, u \in Tiles :
              /\ t # u
              /\ visits[<<b, i, lev, t>>] = 1
              /\ visits[<<b, i, lev, u>>] = 1
              /\ Held(m_particle_containers[b][i]) > 0
    /\ \E b \in Boundaries, i \in Species :
          /\ SkipsBoundary(b) \/ ~m_do_boundary_buffer[b][i]
          /\ \E lev \in Levels : DOMAIN mypc[i][lev] # {}
          /\ \A lev \in Levels, t \in Tiles : visits[<<b, i, lev, t>>] = 0
\* ----------------------------------------------------------------- C30
\* whether a call record is that of a momentum sampling call
IsMomentumCall(c) == c.op \in {"boltzmann.getMomentum", "juttner.getMomentum"}

\* the parameters the claim names as invalid for the sampling method
InvalidParameters ==
    \/ injector.beta <= 0 - One
    \/ injector.beta >= One
    \/ injector.type = "boltzmann" /\ injector.theta < 0
    \/ injector.type = "juttner" /\ 10 * injector.theta < One

\* C30: a getMomentum call of the Boltzmann sampling with theta < 0 or
\* beta <= -1 or beta >= 1, and one of the Juttner sampling with
\* theta < 0.1 or beta <= -1 or beta >= 1, aborts the process with a
\* message and returns no value; nothing runs after the abort, so no
\* default is substituted and no retry is made.
C30_InvalidParametersAbort ==
    [][ /\ (IsMomentumCall(call') /\ InvalidParameters) =>
              /\ call'.aborted
              /\ call'.ret = <<>>
              /\ call'.msg # ""
        /\ ~(IsMomentumCall(call) /\ call.aborted) ]_vars

\* a Juttner sampling call aborted for a temperature that the Boltzmann
\* sampling takes, with a drift inside (-1, 1)
C30_Witness ==
    /\ call.op = "juttner.getMomentum"
    /\ call.aborted
    /\ injector.theta >= 0
    /\ 10 * injector.theta < One
    /\ injector.beta > 0 - One
    /\ injector.beta < One
====
